---- MODULE Spec2Model ----
(***************************************************************************)
(* A state-machine model of the layered ROS2 / PDEVS simulator:            *)
(*   RCLCPPLayer (user client library, UCL)      src/rclcpp_layer.py       *)
(*   RCLLayer (inner client library, ICL)        src/rcl_layer.py          *)
(*   TimerManager / Timer                        src/timer.py              *)
(*   RMWImplementation (middleware, MW)          src/rmw_layer.py          *)
(*   EnhancedROS2TraceLogger                     src/tracing_fixes.py      *)
(* One atomic action is one DEVS step of a machine: its output function,   *)
(* its internal transition, and the external transitions of the machines   *)
(* its output ports reach.  The trace log is the global, append-only       *)
(* sequence `trace`.                                                       *)
(***************************************************************************)
EXTENDS Integers, Sequences, FiniteSets, TLC

(***************************************************************************)
(* Bounds of the model.                                                    *)
(***************************************************************************)
\* number of operations an application submits to the UCL
MaxOps == 3
\* number of inputs written directly on the ICL's input ports
MaxIclOps == 4
\* number of inputs written on the ICL's ports when the wall clock runs
MaxTimerOps == 3
\* number of inputs written on the MW's input ports
MaxMwOps == 4
\* number of calls made on the enhanced tracer
MaxTracerOps == 2
\* number of create operations written on the ICL's and the MW's ports
MaxLayerOps == 4
\* last reading of the wall clock (time.time()), in clock ticks
MaxTime == 3
\* number of idle executor spins of the UCL that are traced
MaxSpin == 1
\* number of operations written on the ICL's port when the MW is attached
MaxStackOps == 5
\* number of inputs written on the ICL's ports, lifecycle commands included
MaxControlOps == 4
\* number of create operations an application submits in any order
MaxDeferOps == 3
\* number of operations written on the ICL's port for one node's entities
MaxIntraOps == 5
\* number of inputs written on the ICL's ports, inbound messages included
MaxDeliverOps == 4
\* number of inputs written on the MW's ports when QoS policies vary
MaxGateOps == 3
\* commands the MW receives when several publishers share a topic
MaxWriterOps == 5
\* descriptors an application submits to the UCL of one node
MaxResolveOps == 3
\* commands submitted to the three layers' queues
MaxFifoOps == 2
\* inputs of the layers that invoke subscription callbacks
MaxCallbackOps == 4
\* creations two nodes submit to the UCL
MaxPairOps == 3
\* operations that arrive before a layer is initialised
MaxEarlyOps == 2
\* largest history depth of a QoS profile that is converted
MaxDepth == 2
\* longest finite deadline or lifespan that is converted, in grid steps
MaxDuration == 12

(***************************************************************************)
(* Program constants.                                                      *)
(***************************************************************************)
\* RCLLayer.state['handle_counter'] at construction
RclHandleBase == 1000
\* RMWImplementation.state['handle_counter'] at construction
RmwHandleBase == 1000
\* Timer.__init__: max(0.001, period); one clock tick is one millisecond
MinPeriod == 1

(***************************************************************************)
(* Input alphabets.                                                        *)
(***************************************************************************)
NodeNames == {"A", "B"}
Topics == {"/t"}
\* timer periods in ticks, as period_ns / 1e6; 0 is below the 1 ms minimum
Periods == {0, 1, 2}
\* a handle no layer ever allocates (below both counters' first value)
BogusHandle == RclHandleBase - 1
\* the values uuid.uuid4().int >> 96 may take (two stand for 2^32)
ContextHandles == {7, 8}
\* the values random.randint(0x1000, 0xFFFFF) may take (the two ends)
TracerSteps == {4096, 1048575}

\* Python None for a handle, and a dict key that is absent
None == 0
Absent == None - 1
NoName == "none"

NoQos == [reliability |-> "none", durability |-> "none"]
Reliabilities == {"RELIABLE", "BEST_EFFORT"}
QosOf(rel) == [reliability |-> rel, durability |-> "VOLATILE"]

NoMsg == [id |-> 0, topic |-> NoName, qos |-> NoQos]
Msg(id, topic, qos) == [id |-> id, topic |-> topic, qos |-> qos]

(***************************************************************************)
(* Small helpers for dictionaries (functions with a finite domain; Python   *)
(* dicts iterate in insertion order, which for handle-keyed tables is the   *)
(* increasing order of the keys).                                           *)
(***************************************************************************)
EmptyMap == [x \in {} |-> 0]
Put(f, k, v) == [x \in (DOMAIN f) \cup {k} |-> IF x = k THEN v ELSE f[x]]
MinOf(S) == CHOOSE x \in S : \A y \in S : x <= y
RECURSIVE SortedSeq(_)
SortedSeq(S) == IF S = {} THEN <<>> ELSE <<MinOf(S)>> \o SortedSeq(S \ {MinOf(S)})
Range(s) == {s[i] : i \in DOMAIN s}

(***************************************************************************)
(* Operation descriptors (the dicts the layers queue), data sent upward,   *)
(* executor work items and trace events.  A callback is a user function:   *)
(* callback says whether one was given, callback_raises whether a call of  *)
(* it raises an exception.                                                 *)
(***************************************************************************)
NoOp == [type |-> "none", node_name |-> NoName, node_handle |-> None,
         topic |-> NoName, qos |-> NoQos, publisher_handle |-> Absent,
         message |-> NoMsg, period |-> 0, handle |-> None, callback |-> FALSE,
         callback_raises |-> FALSE]

NoData == [type |-> "none", handle |-> None, node_name |-> NoName,
           topic |-> NoName, message |-> NoMsg, node_handle |-> None]

NoWork == [type |-> "none", handle |-> None, callback |-> FALSE,
           message |-> NoMsg]

Ev(kind, ctx, node, topic, handle, ref, msg) ==
    [kind |-> kind, ctx |-> ctx, node |-> node, topic |-> topic,
     handle |-> handle, ref |-> ref, msg |-> msg]

VARIABLES
    rclcpp,         \* RCLCPPLayer.state
    rcl,            \* RCLLayer.state
    timer_manager,  \* RCLLayer.timer_manager.timers: handle -> Timer
    rmw,            \* RMWImplementation.state
    dds,            \* the DDS participant: writers, readers, data in flight
    trace,          \* trace_logger: the sequence of logged events
    tracer,         \* EnhancedROS2TraceLogger's fields
    now,            \* the wall clock, time.time()
    crashed,        \* an exception left a transition function
    rcl_last,       \* the operation and outputs of the ICL's latest output function
    rmw_last,       \* the input and effects of the MW's latest transition
    fired,          \* per timer: number of timer_callback firings produced
    env,            \* the environment: inputs submitted, message ids used
    qos_io          \* a QoS profile on its way through the MW's conversions

vars == <<rclcpp, rcl, timer_manager, rmw, dds, trace, tracer, now, crashed,
          rcl_last, rmw_last, fired, env, qos_io>>

(***************************************************************************)
(* Timer and TimerManager (src/timer.py).  A Timer is                      *)
(* [period, last_trigger_time]; `clock` is the reading of time.time().     *)
(***************************************************************************)
Timer_init(period, clock) ==
    [period |-> IF period > MinPeriod THEN period ELSE MinPeriod,
     last_trigger_time |-> clock]

Timer_is_ready(t, clock) == clock >= t.last_trigger_time + t.period

\* trigger() advancing the last trigger time by one period, not to the clock
Timer_trigger_by_period(t, clock) ==
    [t EXCEPT !.last_trigger_time = @ + t.period]

Timer_trigger(t, clock) == [t EXCEPT !.last_trigger_time = clock]

Timer_get_time_until_next(t, clock) ==
    IF t.last_trigger_time + t.period - clock > 0
    THEN t.last_trigger_time + t.period - clock ELSE 0

TimerManager_add_timer(tm, timer_id, period, clock) ==
    Put(tm, timer_id, Timer_init(period, clock))

\* the expired timer ids, in the dict's iteration order
TimerManager_get_expired_timers(tm, clock) ==
    SortedSeq({h \in DOMAIN tm : Timer_is_ready(tm[h], clock)})

\* None (as -1) without timers, else time.time() + the least time until next
TimerManager_get_next_expiration(tm, clock) ==
    IF DOMAIN tm = {} THEN Absent
    ELSE clock + MinOf({Timer_get_time_until_next(tm[h], clock) : h \in DOMAIN tm})

TimerManager_update(tm, clock) ==
    [h \in DOMAIN tm |->
        IF Timer_is_ready(tm[h], clock) THEN Timer_trigger(tm[h], clock) ELSE tm[h]]

(***************************************************************************)
(* RCLLayer (src/rcl_layer.py).  Every handler takes the state dict `st`    *)
(* and the timer manager `tm` and returns the new ones with what it sent    *)
(* on each output port and the events it logged.                            *)
(***************************************************************************)
RclInit ==
    [phase |-> "uninitialized", context |-> None,
     nodes |-> EmptyMap, publishers |-> EmptyMap, subscriptions |-> EmptyMap,
     timers |-> EmptyMap, guard_conditions |-> EmptyMap,
     pending_operations |-> <<>>, handle_counter |-> RclHandleBase,
     has_node_controls |-> FALSE, node_controls |-> EmptyMap,
     waitset |-> [subscriptions |-> <<>>, timers |-> <<>>, guard_conditions |-> <<>>]]

RclResult(st, tm, to_rclcpp, to_rmw, to_exec, ev, intra, crash) ==
    [st |-> st, tm |-> tm, to_rclcpp |-> to_rclcpp, to_rmw |-> to_rmw,
     to_exec |-> to_exec, ev |-> ev, intra |-> intra, crash |-> crash]

RclNothing(st, tm) == RclResult(st, tm, NoData, NoMsg, NoWork, <<>>, 0, FALSE)

\* _next_handle with the increment of the counter left out
RCL_next_handle_stuck(st) == [handle |-> st.handle_counter, st |-> st]

\* _next_handle: the handle returned and the state with the counter advanced
RCL_next_handle(st) ==
    [handle |-> st.handle_counter,
     st |-> [st EXCEPT !.handle_counter = @ + 1]]

RCL_create_node(st, tm, op) ==
    LET nh == RCL_next_handle(st)
        handle == nh.handle
        node == [name |-> op.node_name, handle_id |-> handle,
                 context_handle |-> st.context]
        st2 == [nh.st EXCEPT !.nodes = Put(@, handle, node)]
    IN  RclResult(st2, tm,
            [NoData EXCEPT !.type = "node_created", !.handle = handle,
                           !.node_name = op.node_name],
            NoMsg, NoWork,
            <<Ev("rcl_node_init", "rcl", op.node_name, NoName, handle, None, 0)>>,
            0, FALSE)

RCL_create_publisher(st, tm, op) ==
    IF op.node_handle \notin DOMAIN st.nodes THEN RclNothing(st, tm)
    ELSE
    LET nh == RCL_next_handle(st)
        handle == nh.handle
        publisher == [node_handle |-> op.node_handle, topic |-> op.topic,
                      qos_profile |-> op.qos, handle_id |-> handle]
        st2 == [nh.st EXCEPT !.publishers = Put(@, handle, publisher)]
    IN  RclResult(st2, tm,
            [NoData EXCEPT !.type = "publisher_created", !.handle = handle,
                           !.topic = op.topic],
            NoMsg, NoWork,
            <<Ev("rcl_publisher_init", "rcl", st.nodes[op.node_handle].name,
                 op.topic, handle, op.node_handle, 0)>>,
            0, FALSE)

RCL_create_subscription(st, tm, op) ==
    IF op.node_handle \notin DOMAIN st.nodes THEN RclNothing(st, tm)
    ELSE
    LET nh == RCL_next_handle(st)
        handle == nh.handle
        subscription == [node_handle |-> op.node_handle, topic |-> op.topic,
                         qos_profile |-> op.qos, handle_id |-> handle,
                         callback |-> op.callback,
                         callback_raises |-> op.callback_raises]
        st2 == [nh.st EXCEPT
                  !.subscriptions = Put(@, handle, subscription),
                  !.waitset.subscriptions = Append(@, subscription)]
    IN  RclResult(st2, tm,
            [NoData EXCEPT !.type = "subscription_created", !.handle = handle,
                           !.topic = op.topic],
            NoMsg, NoWork,
            <<Ev("rcl_subscription_init", "rcl", st.nodes[op.node_handle].name,
                 op.topic, handle, op.node_handle, 0)>>,
            0, FALSE)

RCL_create_timer(st, tm, op) ==
    IF op.node_handle \notin DOMAIN st.nodes THEN RclNothing(st, tm)
    ELSE
    LET nh == RCL_next_handle(st)
        handle == nh.handle
        timer == [node_handle |-> op.node_handle, period_ns |-> op.period,
                  callback |-> op.callback, handle_id |-> handle]
        st2 == [nh.st EXCEPT
                  !.timers = Put(@, handle, timer),
                  !.waitset.timers = Append(@, timer)]
    IN  RclResult(st2, TimerManager_add_timer(tm, handle, op.period, now),
            [NoData EXCEPT !.type = "timer_created", !.handle = handle],
            NoMsg, NoWork,
            <<Ev("rcl_timer_init", "rcl", NoName, NoName, handle, None, 0)>>,
            0, FALSE)

\* _create_guard_condition with the append to the waitset left out
RCL_create_guard_condition_unlisted(st, tm, op) ==
    LET nh == RCL_next_handle(st)
        handle == nh.handle
        gc == [handle_id |-> handle, callback |-> op.callback]
        st2 == [nh.st EXCEPT !.guard_conditions = Put(@, handle, gc)]
    IN  RclResult(st2, tm,
            [NoData EXCEPT !.type = "guard_condition_created", !.handle = handle],
            NoMsg, NoWork,
            <<Ev("rcl_guard_condition_init", "rcl", NoName, NoName, handle, None, 0)>>,
            0, FALSE)

RCL_create_guard_condition(st, tm, op) ==
    LET nh == RCL_next_handle(st)
        handle == nh.handle
        gc == [handle_id |-> handle, callback |-> op.callback]
        st2 == [nh.st EXCEPT
                  !.guard_conditions = Put(@, handle, gc),
                  !.waitset.guard_conditions = Append(@, gc)]
    IN  RclResult(st2, tm,
            [NoData EXCEPT !.type = "guard_condition_created", !.handle = handle],
            NoMsg, NoWork,
            <<Ev("rcl_guard_condition_init", "rcl", NoName, NoName, handle, None, 0)>>,
            0, FALSE)

\* _trigger_guard_condition sending the work item without the callback
RCL_trigger_guard_condition_bare(st, tm, op) ==
    IF op.handle \notin DOMAIN st.guard_conditions THEN RclNothing(st, tm)
    ELSE RclResult(st, tm, NoData, NoMsg,
            [NoWork EXCEPT !.type = "guard_condition", !.handle = op.handle],
            <<Ev("rcl_guard_condition_trigger", "rcl", NoName, NoName,
                 op.handle, None, 0)>>,
            0, FALSE)

RCL_trigger_guard_condition(st, tm, op) ==
    IF op.handle \notin DOMAIN st.guard_conditions THEN RclNothing(st, tm)
    ELSE RclResult(st, tm, NoData, NoMsg,
            [NoWork EXCEPT !.type = "guard_condition", !.handle = op.handle,
                           !.callback = st.guard_conditions[op.handle].callback],
            <<Ev("rcl_guard_condition_trigger", "rcl", NoName, NoName,
                 op.handle, None, 0)>>,
            0, FALSE)

DefaultControls == [enable_publishers |-> TRUE, enable_timers |-> TRUE]

\* self.state.get('node_controls', {}).get(node_handle_id, {defaults})
RCL_controls(st, node_handle_id) ==
    IF st.has_node_controls /\ node_handle_id \in DOMAIN st.node_controls
    THEN st.node_controls[node_handle_id] ELSE DefaultControls

\* the subscriptions the intra-process scan matches, in table order
RCL_intra_matches(st, topic, node_handle_id) ==
    SortedSeq({h \in DOMAIN st.subscriptions :
                  /\ st.subscriptions[h].topic = topic
                  /\ st.subscriptions[h].node_handle = node_handle_id})

\* _publish_message forwarding to the MW after an intra-process delivery too
RCL_publish_message_both(st, tm, op) ==
    IF op.publisher_handle \notin DOMAIN st.publishers THEN RclNothing(st, tm)
    ELSE
    LET publisher == st.publishers[op.publisher_handle]
        message == [op.message EXCEPT !.topic = publisher.topic]
        node_handle_id == publisher.node_handle
        published == Ev("rcl_publish", "rcl", NoName, message.topic,
                        op.publisher_handle, node_handle_id, message.id)
        matches == RCL_intra_matches(st, message.topic, node_handle_id)
    IN  IF Len(matches) > 0
        THEN RclResult(st, tm,
                [NoData EXCEPT !.type = "message_delivery",
                               !.handle = matches[1], !.message = message],
                message, NoWork, <<published>>, Len(matches), FALSE)
        ELSE RclResult(st, tm, NoData, message, NoWork, <<published>>, 0, FALSE)

RCL_publish_message(st, tm, op) ==
    IF op.publisher_handle \notin DOMAIN st.publishers THEN RclNothing(st, tm)
    ELSE
    LET publisher == st.publishers[op.publisher_handle]
        message == [op.message EXCEPT !.topic = publisher.topic]
        node_handle_id == publisher.node_handle
        published == Ev("rcl_publish", "rcl", NoName, message.topic,
                        op.publisher_handle, node_handle_id, message.id)
        matches == RCL_intra_matches(st, message.topic, node_handle_id)
        takes == [i \in 1..Len(matches) |->
                    Ev("rclcpp_take", "rcl", NoName, message.topic, None, None,
                       message.id)]
    IN  IF ~RCL_controls(st, node_handle_id).enable_publishers
        THEN RclResult(st, tm, NoData, NoMsg, NoWork, <<published>>, 0, FALSE)
        ELSE IF Len(matches) > 0
        THEN RclResult(st, tm,
                [NoData EXCEPT !.type = "message_delivery",
                               !.handle = matches[1], !.message = message],
                NoMsg, NoWork, <<published>> \o takes, Len(matches), FALSE)
        ELSE RclResult(st, tm, NoData, message, NoWork, <<published>>, 0, FALSE)

RCL_deliver_message(st, tm, op) ==
    LET message == op.message
        found == {h \in DOMAIN st.subscriptions :
                     st.subscriptions[h].topic = message.topic}
    IN  IF found = {} THEN RclNothing(st, tm)
        ELSE LET sub_handle == MinOf(found)
                 subscription == st.subscriptions[sub_handle]
             IN  IF subscription.callback /\ subscription.callback_raises
                 THEN RclResult(st, tm, NoData, NoMsg, NoWork,
                        <<Ev("rcl_take", "rcl", NoName, message.topic,
                             sub_handle, None, message.id)>>,
                        0, TRUE)
                 ELSE
                 RclResult(st, tm,
                    [NoData EXCEPT !.type = "message_delivery",
                                   !.handle = sub_handle, !.message = message],
                    NoMsg,
                    [NoWork EXCEPT !.type = "subscription",
                                   !.handle = sub_handle,
                                   !.callback = st.subscriptions[sub_handle].callback,
                                   !.message = message],
                    <<Ev("rcl_take", "rcl", NoName, message.topic, sub_handle,
                         None, message.id)>>,
                    0, FALSE)

RCL_process_operation(st, tm, op) ==
    CASE op.type = "create_node" -> RCL_create_node(st, tm, op)
      [] op.type = "create_publisher" -> RCL_create_publisher(st, tm, op)
      [] op.type = "create_subscription" -> RCL_create_subscription(st, tm, op)
      [] op.type = "create_timer" -> RCL_create_timer(st, tm, op)
      [] op.type = "publish" -> RCL_publish_message(st, tm, op)
      [] op.type = "deliver_message" -> RCL_deliver_message(st, tm, op)
      [] op.type = "create_guard_condition" -> RCL_create_guard_condition(st, tm, op)
      [] op.type = "trigger_guard_condition" -> RCL_trigger_guard_condition(st, tm, op)
      [] OTHER -> RclNothing(st, tm)

\* the timer branch of outputFnc sending the timer_callback alone
RCL_timer_output_callback_only(st, tm, clock) ==
    LET expired_timers == TimerManager_get_expired_timers(tm, clock)
    IN  IF Len(expired_timers) > 0 /\ expired_timers[1] \in DOMAIN st.timers
        THEN LET timer_handle == expired_timers[1]
                 timer == st.timers[timer_handle]
             IN  RclResult(st, tm,
                    [NoData EXCEPT !.type = "timer_callback",
                                   !.handle = timer_handle,
                                   !.node_handle = timer.node_handle],
                    NoMsg, NoWork,
                    <<Ev("rcl_timer_call", "rcl", NoName, NoName, timer_handle,
                         None, 0)>>,
                    0, FALSE)
        ELSE RclNothing(st, tm)

\* the timer branch of outputFnc: the first expired timer fires
RCL_timer_output(st, tm, clock) ==
    LET expired_timers == TimerManager_get_expired_timers(tm, clock)
    IN  IF Len(expired_timers) > 0 /\ expired_timers[1] \in DOMAIN st.timers
        THEN LET timer_handle == expired_timers[1]
                 timer == st.timers[timer_handle]
             IN  RclResult(st, tm,
                    [NoData EXCEPT !.type = "timer_callback",
                                   !.handle = timer_handle,
                                   !.node_handle = timer.node_handle],
                    NoMsg,
                    [NoWork EXCEPT !.type = "timer", !.handle = timer_handle,
                                   !.callback = timer.callback],
                    <<Ev("rcl_timer_call", "rcl", NoName, NoName, timer_handle,
                         None, 0)>>,
                    0, FALSE)
        ELSE RclNothing(st, tm)

\* outputFnc; ctx is the handle RCLContext() draws
RCL_outputFnc(st, tm, clock, ctx) ==
    IF st.phase = "uninitialized" /\ st.context = None
    THEN LET st2 == [st EXCEPT !.context = ctx]
             r == RCL_timer_output(st2, tm, clock)
         IN  [r EXCEPT !.ev = <<Ev("rcl_init", "rcl", NoName, NoName, ctx, None, 0)>>
                              \o r.ev]
    ELSE IF Len(st.pending_operations) > 0
    THEN RCL_process_operation(st, tm, st.pending_operations[1])
    ELSE RCL_timer_output(st, tm, clock)

\* intTransition removing the head of the queue in the init phase as well
RCL_intTransition_eager(st, tm, clock) ==
    [st |-> IF Len(st.pending_operations) > 0
            THEN [st EXCEPT !.pending_operations = Tail(@),
                            !.phase = IF st.context # None THEN "active" ELSE @]
            ELSE IF st.phase = "uninitialized" /\ st.context # None
            THEN [st EXCEPT !.phase = "active"]
            ELSE st,
     tm |-> TimerManager_update(tm, clock)]

RCL_intTransition(st, tm, clock) ==
    [st |-> IF st.phase = "uninitialized" /\ st.context # None
            THEN [st EXCEPT !.phase = "active"]
            ELSE IF Len(st.pending_operations) > 0
            THEN [st EXCEPT !.pending_operations = Tail(@)]
            ELSE st,
     tm |-> TimerManager_update(tm, clock)]

\* extTransition on from_rclcpp putting the command ahead of the queue
RCL_ext_cmd_front(st, cmd) ==
    [st EXCEPT !.pending_operations = <<cmd>> \o @]

\* extTransition, a command on from_rclcpp
RCL_ext_cmd(st, cmd) == [st EXCEPT !.pending_operations = Append(@, cmd)]

\* extTransition, data on from_rmw
RCL_ext_rmw(st, msg) ==
    [st EXCEPT !.pending_operations =
        Append(@, [NoOp EXCEPT !.type = "deliver_message", !.message = msg])]

\* extTransition, a lifecycle command on control_in: whether it raises
\* (self.state['node_controls'] of a state dict that has no such key)
RCL_ext_control_raises(st, target) ==
    /\ \E h \in DOMAIN st.nodes : st.nodes[h].name = target
    /\ ~st.has_node_controls

RCL_ext_control(st, target, enable_pub, enable_tim) ==
    LET hs == {h \in DOMAIN st.nodes : st.nodes[h].name = target}
    IN  IF hs = {} \/ ~st.has_node_controls THEN st
        ELSE LET handle == MinOf(hs)
                 nc == RCL_controls(st, handle)
                 nc2 == [enable_publishers |->
                            IF enable_pub = "none" THEN nc.enable_publishers
                            ELSE enable_pub = "true",
                         enable_timers |->
                            IF enable_tim = "none" THEN nc.enable_timers
                            ELSE enable_tim = "true"]
             IN  [st EXCEPT !.node_controls = Put(@, handle, nc2)]

\* timeAdvance, in microseconds (a tick of the clock is a millisecond):
\* 0.01 s before the init step, 0.0001 s with an operation pending, the time
\* to the next timer expiration, or INFINITY
RCL_timeAdvance(st, tm, clock) ==
    IF st.phase = "uninitialized" THEN [inf |-> FALSE, us |-> 10000]
    ELSE IF Len(st.pending_operations) > 0 THEN [inf |-> FALSE, us |-> 100]
    ELSE LET next_timer == TimerManager_get_next_expiration(tm, clock)
         IN  IF next_timer # Absent
             THEN [inf |-> FALSE,
                   us |-> IF next_timer - clock > 0
                          THEN (next_timer - clock) * 1000 ELSE 0]
             ELSE [inf |-> TRUE, us |-> 0]

\* whether the simulator will run the ICL's internal transition at all
RCL_timeAdvance_finite(st, tm) == ~RCL_timeAdvance(st, tm, 0).inf

(***************************************************************************)
(* RCLCPPLayer (src/rclcpp_layer.py).  state['nodes'] maps a node name to   *)
(* its record; node_order keeps the dict's insertion order.                 *)
(***************************************************************************)
RclcppInit ==
    [phase |-> "idle", initialized |-> FALSE, nodes |-> EmptyMap,
     node_order |-> <<>>, pending_operations |-> <<>>,
     executor_active |-> FALSE, pending_publishers |-> <<>>,
     pending_subscriptions |-> <<>>, rcl_initialized |-> FALSE]

NewNodeInfo == [handle |-> None, publishers |-> EmptyMap, subscriptions |-> EmptyMap]

RclcppResult(st, to_rcl, to_app, ev, crash) ==
    [st |-> st, to_rcl |-> to_rcl, to_app |-> to_app, ev |-> ev, crash |-> crash]

\* the node record of node_name, created on demand
RCLCPP_with_node(st, node_name) ==
    IF node_name \in DOMAIN st.nodes THEN st
    ELSE [st EXCEPT !.nodes = Put(@, node_name, NewNodeInfo),
                    !.node_order = Append(@, node_name)]

RCLCPP_create_node(st, op) ==
    RclcppResult(RCLCPP_with_node(st, op.node_name),
        [NoOp EXCEPT !.type = "create_node", !.node_name = op.node_name],
        NoMsg,
        <<Ev("rclcpp_node_init", "rclcpp", op.node_name, NoName, None, None, 0),
          Ev("rcl_node_init", "rclcpp", op.node_name, NoName, None, None, 0)>>,
        FALSE)

RCLCPP_create_publisher(st, op) ==
    LET st1 == RCLCPP_with_node(st, op.node_name)
        st2 == [st1 EXCEPT !.nodes[op.node_name].publishers =
                               Put(@, op.topic, None)]
    IN  RclcppResult(st2,
            [NoOp EXCEPT !.type = "create_publisher",
                         !.node_handle = st2.nodes[op.node_name].handle,
                         !.topic = op.topic, !.qos = op.qos],
            NoMsg,
            <<Ev("rclcpp_publisher_init", "rclcpp", op.node_name, op.topic,
                 None, None, 0),
              Ev("rcl_publisher_init", "rclcpp", NoName, op.topic, None, None, 0)>>,
            FALSE)

RCLCPP_create_subscription(st, op) ==
    LET st1 == RCLCPP_with_node(st, op.node_name)
        st2 == [st1 EXCEPT !.nodes[op.node_name].subscriptions =
                               Put(@, op.topic,
                                   [callback |-> op.callback, handle |-> None])]
        registered == IF op.callback
                      THEN <<Ev("rclcpp_subscription_callback_added", "rclcpp",
                                NoName, op.topic, None, None, 0),
                             Ev("rclcpp_callback_register", "rclcpp",
                                NoName, NoName, None, None, 0)>>
                      ELSE <<>>
    IN  RclcppResult(st2,
            [NoOp EXCEPT !.type = "create_subscription",
                         !.node_handle = st2.nodes[op.node_name].handle,
                         !.topic = op.topic, !.qos = op.qos,
                         !.callback = op.callback],
            NoMsg,
            <<Ev("rclcpp_subscription_init", "rclcpp", op.node_name, op.topic,
                 None, None, 0)>>
            \o registered \o
            <<Ev("rcl_subscription_init", "rclcpp", NoName, op.topic, None,
                 None, 0)>>,
            FALSE)

\* op['publisher_handle'] raises KeyError when the key is absent
RCLCPP_publish(st, op) ==
    IF op.publisher_handle = Absent
    THEN RclcppResult(st, NoOp, NoMsg, <<>>, TRUE)
    ELSE RclcppResult(st,
            [NoOp EXCEPT !.type = "publish",
                         !.publisher_handle = op.publisher_handle,
                         !.message = op.message],
            NoMsg,
            <<Ev("rclcpp_publish", "rclcpp", NoName, op.message.topic, None,
                 None, op.message.id),
              Ev("rcl_publish", "rclcpp", NoName, NoName, None, None,
                 op.message.id)>>,
            FALSE)

RCLCPP_outputFnc(st) ==
    IF st.phase = "idle" /\ ~st.initialized
    THEN RclcppResult([st EXCEPT !.rcl_initialized = TRUE], NoOp, NoMsg,
            <<Ev("rclcpp_init", "rclcpp", NoName, NoName, None, None, 0)>>
            \o (IF st.rcl_initialized THEN <<>>
                ELSE <<Ev("rcl_init", "rclcpp", NoName, NoName, None, None, 0)>>),
            FALSE)
    ELSE IF Len(st.pending_operations) > 0
    THEN LET op == st.pending_operations[1]
         IN  CASE op.type = "create_node" -> RCLCPP_create_node(st, op)
               [] op.type = "create_publisher" -> RCLCPP_create_publisher(st, op)
               [] op.type = "create_subscription" -> RCLCPP_create_subscription(st, op)
               [] op.type = "publish" -> RCLCPP_publish(st, op)
               [] OTHER -> RclcppResult(st, NoOp, NoMsg, <<>>, FALSE)
    ELSE IF st.executor_active
    THEN LET waiting == {i \in 1..Len(st.pending_operations) :
                            st.pending_operations[i].type = "deliver_to_app"}
         IN  IF waiting # {}
             THEN RclcppResult(st, NoOp,
                     st.pending_operations[MinOf(waiting)].message, <<>>, FALSE)
             ELSE RclcppResult(st, NoOp, NoMsg,
                     <<Ev("rclcpp_executor_spin_some", "rclcpp", NoName, NoName,
                          Cardinality(DOMAIN st.nodes), None, 0)>>,
                     FALSE)
    ELSE RclcppResult(st, NoOp, NoMsg, <<>>, FALSE)

RCLCPP_intTransition(st) ==
    IF st.phase = "idle" /\ ~st.initialized
    THEN [st EXCEPT !.initialized = TRUE, !.executor_active = TRUE]
    ELSE IF Len(st.pending_operations) > 0
    THEN [st EXCEPT !.pending_operations = Tail(@)]
    ELSE st

\* extTransition on app_pub_in without the handle resolution
RCLCPP_ext_app_verbatim(st, app_msg) ==
    [st EXCEPT !.pending_operations = Append(@, app_msg)]

\* extTransition, an operation descriptor on app_pub_in
RCLCPP_ext_app(st, app_msg) ==
    LET node_name == app_msg.node_name
        topic == IF app_msg.message.topic # NoName THEN app_msg.message.topic
                 ELSE app_msg.topic
        resolvable ==
            /\ app_msg.type = "publish"
            /\ app_msg.publisher_handle \in {Absent, None}
            /\ node_name # NoName /\ topic # NoName
            /\ node_name \in DOMAIN st.nodes
            /\ topic \in DOMAIN st.nodes[node_name].publishers
            /\ st.nodes[node_name].publishers[topic] # None
        queued == IF resolvable
                  THEN [app_msg EXCEPT !.publisher_handle =
                                          st.nodes[node_name].publishers[topic]]
                  ELSE app_msg
    IN  [st EXCEPT !.pending_operations = Append(@, queued)]

\* the first node, in dict order, for which P holds (0 when there is none)
RECURSIVE FirstNode(_, _, _)
FirstNode(order, nodes, topic) ==
    IF order = <<>> THEN NoName
    ELSE IF topic \in DOMAIN nodes[Head(order)].publishers THEN Head(order)
    ELSE FirstNode(Tail(order), nodes, topic)

\* _handle_rcl_data, the data arriving on rcl_data_in: new state and events
RCLCPP_handle_rcl_data(st, data) ==
    CASE data.type = "node_created" ->
            [st |-> IF data.node_name \in DOMAIN st.nodes
                    THEN [st EXCEPT !.nodes[data.node_name].handle = data.handle]
                    ELSE st,
             ev |-> <<>>]
      [] data.type = "publisher_created" ->
            LET owner == FirstNode(st.node_order, st.nodes, data.topic)
            IN  [st |-> IF owner = NoName THEN st
                        ELSE [st EXCEPT
                                !.nodes[owner].publishers[data.topic] = data.handle,
                                !.pending_operations =
                                    Append(@, [NoOp EXCEPT
                                                 !.type = "publisher_created",
                                                 !.publisher_handle = data.handle,
                                                 !.topic = data.topic])],
                 ev |-> <<>>]
      [] data.type = "message_delivery" ->
            LET subscribers == {n \in DOMAIN st.nodes :
                                   data.message.topic \in DOMAIN st.nodes[n].subscriptions}
                copies == IF subscribers = {} THEN 1 ELSE Cardinality(subscribers)
                item == [NoOp EXCEPT !.type = "deliver_to_app",
                                     !.message = data.message]
            IN  [st |-> [st EXCEPT !.pending_operations =
                                       @ \o [i \in 1..copies |-> item]],
                 ev |-> <<Ev("rclcpp_take", "rclcpp", NoName, data.message.topic,
                             None, None, data.message.id)>>]
      [] OTHER -> [st |-> st, ev |-> <<>>]

(***************************************************************************)
(* The DDS participant and the transport between it and the MW.  Their      *)
(* source (participant.py, transport.py) is not part of src/; they are      *)
(* modelled from the specification, section 4.2: create_writer and          *)
(* create_reader assign a guid and store the entity, write_data stamps a    *)
(* per-writer sequence number and forwards the data toward the MW's dds_in. *)
(***************************************************************************)
DdsInit == [writers |-> EmptyMap, readers |-> EmptyMap, guid_counter |-> 1,
            in_flight |-> <<>>]

DDS_create_writer(d, topic) ==
    [guid |-> d.guid_counter,
     dds |-> [d EXCEPT !.writers = Put(@, d.guid_counter,
                                       [topic |-> topic, sequence_number |-> 0]),
                       !.guid_counter = @ + 1]]

DDS_create_reader(d, topic, subscription) ==
    [guid |-> d.guid_counter,
     dds |-> [d EXCEPT !.readers = Put(@, d.guid_counter,
                                       [topic |-> topic,
                                        subscription |-> subscription]),
                       !.guid_counter = @ + 1]]

DdsData(shape, topic, message, writer_guid, sequence_number) ==
    [shape |-> shape, topic |-> topic, message |-> message,
     writer_guid |-> writer_guid, sequence_number |-> sequence_number]

DDS_write_data(d, writer_guid, msg) ==
    IF writer_guid \notin DOMAIN d.writers THEN d
    ELSE LET seq == d.writers[writer_guid].sequence_number + 1
         IN  [d EXCEPT !.writers[writer_guid].sequence_number = seq,
                       !.in_flight = Append(@,
                           DdsData("data", d.writers[writer_guid].topic, msg,
                                   writer_guid, seq))]

(***************************************************************************)
(* RMWImplementation (src/rmw_layer.py).                                    *)
(***************************************************************************)
RmwInit ==
    [phase |-> "idle", initialized |-> FALSE, publishers |-> EmptyMap,
     subscriptions |-> EmptyMap, pending_operations |-> <<>>,
     handle_counter |-> RmwHandleBase]

RmwResult(st, d, ev) == [st |-> st, dds |-> d, ev |-> ev]

\* _next_handle: the handle returned and the state with the counter advanced
RMW_next_handle(st) ==
    [handle |-> st.handle_counter,
     st |-> [st EXCEPT !.handle_counter = @ + 1]]

\* _coerce_to_rmw_qos on the two policies the delivery check reads:
\* an absent profile becomes the default RMW profile
RMW_coerce_to_rmw_qos(qos) ==
    IF qos = NoQos THEN [reliability |-> "RELIABLE", durability |-> "VOLATILE"]
    ELSE qos

(***************************************************************************)
(* The two QoS representations and the conversions between them.  The     *)
(* inner profile holds deadline and lifespan as float milliseconds with   *)
(* infinity for "none"; the lower profile holds integer nanoseconds with  *)
(* None for "none".  A finite millisecond value is represented here by    *)
(* its count of grid steps, GridPerNs steps to the nanosecond, so that    *)
(* values between two whole nanoseconds exist as they do for a float.     *)
(***************************************************************************)
GridPerNs == 10

RmwReliabilities == {"RELIABLE", "BEST_EFFORT"}
RmwDurabilities == {"VOLATILE", "TRANSIENT_LOCAL", "TRANSIENT", "PERSISTENT"}
RmwHistories == {"KEEP_LAST", "KEEP_ALL"}

\* float('inf') and a finite duration of t grid steps
Infinite == [inf |-> TRUE, t |-> 0]
Finite(t) == [inf |-> FALSE, t |-> t]

\* a lower duration: None, or a whole number of nanoseconds
Unset == [set |-> FALSE, ns |-> 0]
Nanos(n) == [set |-> TRUE, ns |-> n]

RMWQoSProfile(rel, dur, hist, depth, deadline, lifespan) ==
    [repr |-> "rmw", reliability |-> rel, durability |-> dur,
     history |-> hist, depth |-> depth,
     deadline |-> deadline, lifespan |-> lifespan]

DDSQoSProfile(rel, dur, hist, depth, deadline, lifespan) ==
    [repr |-> "dds", reliability |-> rel, durability |-> dur,
     history |-> hist, depth |-> depth,
     deadline |-> deadline, lifespan |-> lifespan]

\* the fallback of _coerce_to_rmw_qos
DefaultRmwQos ==
    RMWQoSProfile("RELIABLE", "VOLATILE", "KEEP_LAST", 10, Infinite, Infinite)

\* rel_map.get, dur_map.get and hist_map.get of _to_dds_qos: the lower enum
\* (named by its value string) for an inner value string, with the default
ToDdsReliability(v) ==
    CASE v = "RELIABLE" -> "reliable"
      [] v = "BEST_EFFORT" -> "best_effort"
      [] OTHER -> "reliable"

ToDdsDurability(v) ==
    CASE v = "VOLATILE" -> "volatile"
      [] v = "TRANSIENT_LOCAL" -> "transient_local"
      [] v = "TRANSIENT" -> "transient"
      [] v = "PERSISTENT" -> "persistent"
      [] OTHER -> "volatile"

ToDdsHistory(v) ==
    CASE v = "KEEP_LAST" -> "keep_last"
      [] v = "KEEP_ALL" -> "keep_all"
      [] OTHER -> "keep_last"

\* None if ms in (None, inf) else int(ms * 1e6): int() truncates
MsToNs(d) == IF d.inf THEN Unset ELSE Nanos(d.t \div GridPerNs)

\* _to_dds_qos
RMW_to_dds_qos(q) ==
    DDSQoSProfile(ToDdsReliability(q.reliability),
                  ToDdsDurability(q.durability),
                  ToDdsHistory(q.history),
                  q.depth, MsToNs(q.deadline), MsToNs(q.lifespan))

\* the maps of _coerce_to_rmw_qos, with their defaults
ToRmwReliability(v) ==
    CASE v = "reliable" -> "RELIABLE"
      [] v = "best_effort" -> "BEST_EFFORT"
      [] OTHER -> "RELIABLE"

ToRmwDurability(v) ==
    CASE v = "volatile" -> "VOLATILE"
      [] v = "transient_local" -> "TRANSIENT_LOCAL"
      [] v = "transient" -> "TRANSIENT"
      [] v = "persistent" -> "PERSISTENT"
      [] OTHER -> "VOLATILE"

ToRmwHistory(v) ==
    CASE v = "keep_last" -> "KEEP_LAST"
      [] v = "keep_all" -> "KEEP_ALL"
      [] OTHER -> "KEEP_LAST"

\* float('inf') if ns is None else ns / 1e6
NsToMs(d) == IF d.set THEN Finite(d.ns * GridPerNs) ELSE Infinite

\* _coerce_to_rmw_qos on a whole profile: an inner profile is returned as
\* it is, a lower profile is mapped back, anything else gives the default
RMW_coerce_profile_to_rmw_qos(qos) ==
    CASE qos.repr = "rmw" -> qos
      [] qos.repr = "dds" ->
            RMWQoSProfile(ToRmwReliability(qos.reliability),
                          ToRmwDurability(qos.durability),
                          ToRmwHistory(qos.history),
                          qos.depth, NsToMs(qos.deadline), NsToMs(qos.lifespan))
      [] OTHER -> DefaultRmwQos

\* the profiles a conversion is applied to
QosDepths == 0 .. MaxDepth
QosDurations == {Infinite} \cup {Finite(t) : t \in 0 .. MaxDuration}
InnerProfiles ==
    {RMWQoSProfile(rel, dur, hist, depth, dl, ls) :
        rel \in RmwReliabilities, dur \in RmwDurabilities,
        hist \in RmwHistories, depth \in QosDepths,
        dl \in QosDurations, ls \in {Infinite, Finite(MaxDuration)}}

\* qos_io: the profile given, its lower form and the profile coerced back
QosIdle == [stage |-> "idle", q |-> DefaultRmwQos,
            lower |-> RMW_to_dds_qos(DefaultRmwQos), back |-> DefaultRmwQos]

\* _create_publisher keeping a writer guid without creating the writer
RMW_create_publisher_unregistered(st, d, op) ==
    LET nh == RMW_next_handle(st)
        handle == nh.handle
        pub == [handle |-> handle, topic |-> op.topic,
                qos |-> RMW_coerce_to_rmw_qos(op.qos),
                dds_writer_guid |-> d.guid_counter, node_name |-> op.node_name]
        logged == Ev("rmw_publisher_init", "rmw", op.node_name, op.topic,
                     handle, None, 0)
    IN  RmwResult([nh.st EXCEPT !.publishers = Put(@, handle, pub)], d,
                  <<logged, logged>>)

RMW_create_publisher(st, d, op) ==
    LET nh == RMW_next_handle(st)
        handle == nh.handle
        w == DDS_create_writer(d, op.topic)
        pub == [handle |-> handle, topic |-> op.topic,
                qos |-> RMW_coerce_to_rmw_qos(op.qos),
                dds_writer_guid |-> w.guid, node_name |-> op.node_name]
        logged == Ev("rmw_publisher_init", "rmw", op.node_name, op.topic,
                     handle, None, 0)
    IN  RmwResult([nh.st EXCEPT !.publishers = Put(@, handle, pub)], w.dds,
                  <<logged, logged>>)

RMW_create_subscription(st, d, op) ==
    LET nh == RMW_next_handle(st)
        handle == nh.handle
        r == DDS_create_reader(d, op.topic, handle)
        sub == [handle |-> handle, topic |-> op.topic,
                qos |-> RMW_coerce_to_rmw_qos(op.qos),
                dds_reader_guid |-> r.guid, node_name |-> op.node_name,
                callback |-> op.callback,
                callback_raises |-> op.callback_raises]
    IN  RmwResult([nh.st EXCEPT !.subscriptions = Put(@, handle, sub)], r.dds,
                  <<Ev("rmw_subscription_init", "rmw", op.node_name, op.topic,
                       handle, None, 0)>>)

\* _find_publisher_for_topic: the first publisher on the topic, None else
RMW_find_publisher_for_topic(st, topic) ==
    LET found == {h \in DOMAIN st.publishers : st.publishers[h].topic = topic}
    IN  IF found = {} THEN None ELSE MinOf(found)

RMW_publish(st, d, op) ==
    LET msg == op.message
        pub == RMW_find_publisher_for_topic(st, msg.topic)
    IN  IF pub = None THEN RmwResult(st, d, <<>>)
        ELSE RmwResult(st,
                IF st.publishers[pub].dds_writer_guid # None
                THEN DDS_write_data(d, st.publishers[pub].dds_writer_guid, msg)
                ELSE d,
                <<Ev("rmw_publish", "rmw", NoName, msg.topic, None, None, msg.id)>>)

\* _check_qos_delivery without the durability check
RMW_check_qos_delivery_reliability_only(msg, sub) ==
    IF msg.qos = NoQos \/ sub.qos = NoQos THEN TRUE
    ELSE ~(sub.qos.reliability = "RELIABLE" /\ msg.qos.reliability # "RELIABLE")

\* _check_qos_delivery: whether the message may be delivered to sub
RMW_check_qos_delivery(msg, sub) ==
    IF msg.qos = NoQos \/ sub.qos = NoQos THEN TRUE
    ELSE IF sub.qos.reliability = "RELIABLE" /\ msg.qos.reliability # "RELIABLE"
    THEN FALSE
    ELSE IF sub.qos.durability = "TRANSIENT_LOCAL" /\ msg.qos.durability = "VOLATILE"
    THEN FALSE
    ELSE TRUE

\* _check_qos_delivery: the reason it returns with its verdict
RMW_check_qos_reason(msg, sub) ==
    IF msg.qos = NoQos \/ sub.qos = NoQos THEN ""
    ELSE IF sub.qos.reliability = "RELIABLE" /\ msg.qos.reliability # "RELIABLE"
    THEN "reliability mismatch"
    ELSE IF sub.qos.durability = "TRANSIENT_LOCAL" /\ msg.qos.durability = "VOLATILE"
    THEN "durability mismatch"
    ELSE ""

\* _on_dds_data_available: the events logged for one subscription
RMW_on_dds_data_available(sub, msg) ==
    <<Ev("rmw_take", "rmw", NoName, sub.topic, sub.handle, None, msg.id),
      Ev("rcl_take", "rmw", NoName, sub.topic, sub.handle, None, msg.id)>>
    \o (IF sub.callback /\ sub.callback_raises
        THEN <<Ev("rmw_subscription_callback_error", "rmw", NoName, sub.topic,
                  None, None, 0)>>
        ELSE <<>>)
    \o <<Ev("rcl_take", "rmw", NoName, sub.topic, sub.handle, None, msg.id)>>

\* the subscriptions on a topic, in table order
RMW_subscriptions_on(st, topic) ==
    SortedSeq({h \in DOMAIN st.subscriptions : st.subscriptions[h].topic = topic})

RECURSIVE RMW_deliver_each(_, _, _, _)
\* the loop over the matching subscriptions; gated says whether QoS is
\* checked.  The rmw_qos_incompatible event carries the topic and, in the
\* slot for a name, the reason
RMW_deliver_each(st, handles, msg, gated) ==
    IF handles = <<>> THEN [ev |-> <<>>, taken |-> <<>>, rejected |-> <<>>]
    ELSE LET sub == st.subscriptions[Head(handles)]
             rest == RMW_deliver_each(st, Tail(handles), msg, gated)
         IN  IF ~gated \/ RMW_check_qos_delivery(msg, sub)
             THEN [ev |-> RMW_on_dds_data_available(sub, msg) \o rest.ev,
                   taken |-> <<sub.handle>> \o rest.taken,
                   rejected |-> rest.rejected]
             ELSE [ev |-> <<Ev("rmw_qos_incompatible", "rmw",
                               RMW_check_qos_reason(msg, sub), sub.topic,
                               None, None, 0)>> \o rest.ev,
                   taken |-> rest.taken,
                   rejected |-> <<sub.handle>> \o rest.rejected]

\* _handle_dds_response: the response-style dict {'type': 'data', ...}
RMW_handle_dds_response(st, response) ==
    RMW_deliver_each(st, RMW_subscriptions_on(st, response.topic),
                     response.message, TRUE)

\* _handle_dds_data: the participant's dict {'topic', 'data', ...}
RMW_handle_dds_data(st, dds_msg) ==
    RMW_deliver_each(st, RMW_subscriptions_on(st, dds_msg.topic),
                     dds_msg.message, FALSE)

\* extTransition, input on dds_in: a dict with 'data' and 'topic' keys is
\* participant data, anything else is handled as a response
RMW_ext_dds(st, dds_msg) ==
    IF dds_msg.shape = "data" THEN RMW_handle_dds_data(st, dds_msg)
    ELSE RMW_handle_dds_response(st, dds_msg)

\* extTransition, input on rcl_pub_in: only dicts are queued
RMW_ext_rcl(st, rcl_cmd, is_dict) ==
    IF is_dict THEN [st EXCEPT !.pending_operations = Append(@, rcl_cmd)]
    ELSE st

RMW_outputFnc(st, d) ==
    IF st.phase = "idle" /\ ~st.initialized
    THEN RmwResult(st, d, <<Ev("rmw_init", "rmw", NoName, NoName, None, None, 0)>>)
    ELSE IF Len(st.pending_operations) > 0
    THEN LET op == st.pending_operations[1]
         IN  CASE op.type = "create_publisher" -> RMW_create_publisher(st, d, op)
               [] op.type = "create_subscription" -> RMW_create_subscription(st, d, op)
               [] op.type = "publish" -> RMW_publish(st, d, op)
               [] OTHER -> RmwResult(st, d, <<>>)
    ELSE RmwResult(st, d, <<>>)

\* the dict outputFnc returns: what it puts on rcl_sub_out, dds_out and
\* graph_event_out.  The init branch falls through to return {}, and
\* _create_publisher, _create_subscription and _publish each end in
\* return {} (the dict built by _generate_graph_event is not returned)
RmwNoOutput == [rcl_sub_out |-> NoData, dds_out |-> NoData,
                graph_event_out |-> NoData]

RMW_output_ports(st) ==
    IF st.phase = "idle" /\ ~st.initialized THEN RmwNoOutput
    ELSE IF Len(st.pending_operations) > 0
    THEN LET op == st.pending_operations[1]
         IN  CASE op.type = "create_publisher" -> RmwNoOutput
               [] op.type = "create_subscription" -> RmwNoOutput
               [] op.type = "publish" -> RmwNoOutput
               [] OTHER -> RmwNoOutput
    ELSE RmwNoOutput

\* intTransition whose init transition also removes the head of the queue
RMW_intTransition_eager(st) ==
    IF st.phase = "idle" /\ ~st.initialized
    THEN [st EXCEPT !.initialized = TRUE,
                    !.pending_operations = IF @ = <<>> THEN @ ELSE Tail(@)]
    ELSE IF Len(st.pending_operations) > 0
    THEN [st EXCEPT !.pending_operations = Tail(@)]
    ELSE st

RMW_intTransition(st) ==
    IF st.phase = "idle" /\ ~st.initialized
    THEN [st EXCEPT !.initialized = TRUE]
    ELSE IF Len(st.pending_operations) > 0
    THEN [st EXCEPT !.pending_operations = Tail(@)]
    ELSE st

(***************************************************************************)
(* EnhancedROS2TraceLogger (src/tracing_fixes.py).  handle_counter is kept  *)
(* as its offset from the value at construction (0xAAAAE0000000), and so    *)
(* are the handles; `steps` are the values random.randint draws, consumed   *)
(* from the left, one by each _next_handle.                                 *)
(***************************************************************************)
TracerInit == [handle_counter |-> 0, node_handles |-> EmptyMap,
               pub_handles |-> EmptyMap, sub_handles |-> EmptyMap]

TracerResult(tr, ev, rest) == [tr |-> tr, ev |-> ev, rest |-> rest]

\* _next_handle: the counter moves by the drawn step and is returned
TRACER_next_handle(tr, step) == [tr EXCEPT !.handle_counter = @ + step]

TRACER_log_system_init(tr, steps) ==
    LET t1 == TRACER_next_handle(tr, steps[1])
        context_handle == t1.handle_counter
    IN  TracerResult(t1,
            <<Ev("rcl_init", "default", NoName, NoName, context_handle, None, 0)>>,
            Tail(steps))

TRACER_log_node_initialization(tr, node_name, steps) ==
    LET t1 == TRACER_next_handle(tr, steps[1])
        node_handle == t1.handle_counter
        t2 == TRACER_next_handle(t1, steps[2])
        rmw_handle == t2.handle_counter
    IN  TracerResult(
            [t2 EXCEPT !.node_handles =
                Put(@, node_name, [node_handle |-> node_handle,
                                   rmw_handle |-> rmw_handle])],
            <<Ev("rcl_node_init", "default", node_name, NoName, node_handle,
                 rmw_handle, 0)>>,
            Tail(Tail(steps)))

\* the "get or create node handles" prologue of the two entity loggers
TRACER_with_node(tr, node_name, steps) ==
    IF node_name \notin DOMAIN tr.node_handles
    THEN TRACER_log_node_initialization(tr, node_name, steps)
    ELSE TracerResult(tr, <<>>, steps)

TRACER_log_publisher_initialization(tr, node_name, topic_name, steps) ==
    LET n == TRACER_with_node(tr, node_name, steps)
        node_handle == n.tr.node_handles[node_name].node_handle
        t1 == TRACER_next_handle(n.tr, n.rest[1])
        rmw_publisher_handle == t1.handle_counter
        t2 == TRACER_next_handle(t1, n.rest[2])
        message_handle == t2.handle_counter
        t3 == TRACER_next_handle(t2, n.rest[3])
        publisher_handle == t3.handle_counter
    IN  TracerResult(
            [t3 EXCEPT !.pub_handles =
                Put(@, <<node_name, topic_name>>,
                    [publisher_handle |-> publisher_handle,
                     rmw_publisher_handle |-> rmw_publisher_handle])],
            n.ev \o
            <<Ev("rmw_publisher_init", "default", NoName, NoName,
                 rmw_publisher_handle, None, 0),
              Ev("rmw_publish", "default", NoName, NoName, message_handle, None, 0),
              Ev("rcl_publisher_init", "default", NoName, topic_name,
                 publisher_handle, rmw_publisher_handle, 0)>>,
            Tail(Tail(Tail(n.rest))))

TRACER_log_subscription_initialization(tr, node_name, topic_name, steps) ==
    LET n == TRACER_with_node(tr, node_name, steps)
        node_handle == n.tr.node_handles[node_name].node_handle
        t1 == TRACER_next_handle(n.tr, n.rest[1])
        rmw_subscription_handle == t1.handle_counter
        t2 == TRACER_next_handle(t1, n.rest[2])
        subscription_handle == t2.handle_counter
    IN  TracerResult(
            [t2 EXCEPT !.sub_handles =
                Put(@, <<node_name, topic_name>>,
                    [subscription_handle |-> subscription_handle,
                     rmw_subscription_handle |-> rmw_subscription_handle])],
            n.ev \o
            <<Ev("rmw_subscription_init", "default", NoName, NoName,
                 rmw_subscription_handle, None, 0),
              Ev("rcl_subscription_init", "default", NoName, topic_name,
                 subscription_handle, rmw_subscription_handle, 0)>>,
            Tail(Tail(n.rest)))

(***************************************************************************)
(* The composed system.  Couplings: RCLCPPLayer.rcl_cmd_out -> RCLLayer     *)
(* from_rclcpp; RCLLayer.to_rclcpp -> RCLCPPLayer.rcl_data_in;              *)
(* RCLLayer.to_rmw -> RMWImplementation.rcl_pub_in; participant data ->     *)
(* transport -> RMWImplementation.dds_in (src/rmw_layer.py, RMWLayer).      *)
(* The environment may also write on every input port.                      *)
(***************************************************************************)
RclLastInit == [kind |-> "none", op |-> NoOp, to_rclcpp |-> NoData,
                to_rmw |-> NoMsg, to_exec |-> NoWork, intra |-> 0]

RmwLastInit == [kind |-> "none", input |-> DdsData("none", NoName, NoMsg, None, 0),
                taken |-> <<>>, rejected |-> <<>>]

\* the state after construction; budget is the number of inputs the
\* environment is going to submit
InitSystem(budget) ==
    /\ rclcpp = RclcppInit
    /\ rcl = RclInit
    /\ timer_manager = EmptyMap
    /\ rmw = RmwInit
    /\ dds = DdsInit
    /\ trace = <<>>
    /\ tracer = TracerInit
    /\ now = 0
    /\ crashed = FALSE
    /\ rcl_last = RclLastInit
    /\ rmw_last = RmwLastInit
    /\ fired = EmptyMap
    /\ env = [ops |-> 0, msgs |-> 0, spins |-> 0, budget |-> budget]

\* no QoS profile is being converted
InitWith(budget) == InitSystem(budget) /\ qos_io = QosIdle

Init == InitWith(MaxOps)

CanSubmit == ~crashed /\ env.ops < env.budget

\* the operation descriptors an application submits to the UCL
AppCreateNode(names) ==
    {[NoOp EXCEPT !.type = "create_node", !.node_name = n] : n \in names}

AppCreatePublisher(names) ==
    {[NoOp EXCEPT !.type = "create_publisher", !.node_name = n, !.topic = t] :
        n \in names, t \in Topics}

AppCreateSubscription(names) ==
    {[NoOp EXCEPT !.type = "create_subscription", !.node_name = n, !.topic = t,
                  !.callback = TRUE] : n \in names, t \in Topics}

\* publish by node name and topic, the publisher handle left to the UCL
AppPublish(names, id) ==
    {[NoOp EXCEPT !.type = "publish", !.node_name = n,
                  !.message = Msg(id, t, NoQos)] : n \in names, t \in Topics}

\* publish with a publisher handle the application supplies
AppPublishBy(handles, id) ==
    {[NoOp EXCEPT !.type = "publish", !.publisher_handle = h,
                  !.message = Msg(id, NoName, NoQos)] : h \in handles}

AppOps ==
    AppCreateNode(NodeNames) \cup AppCreatePublisher({"A"})
    \cup AppCreateSubscription({"A"}) \cup AppPublish({"A"}, env.msgs + 1)
    \cup AppPublishBy({BogusHandle}, env.msgs + 1)

\* the environment's bookkeeping for one submitted input
Submitted(op) ==
    [env EXCEPT !.ops = @ + 1,
                !.msgs = IF op.message # NoMsg THEN @ + 1 ELSE @]

\* an application submits an operation descriptor on app_pub_in
AppSubmit(op) ==
    /\ CanSubmit
    /\ rclcpp' = RCLCPP_ext_app(rclcpp, op)
    /\ env' = Submitted(op)
    /\ UNCHANGED <<qos_io, rcl, timer_manager, rmw, dds, trace, tracer, now, crashed,
                   rcl_last, rmw_last, fired>>

\* one DEVS step of the UCL: outputFnc, intTransition, and the ICL's
\* extTransition for what was sent on rcl_cmd_out
RclcppStep ==
    /\ ~crashed
    /\ \/ ~rclcpp.initialized
       \/ Len(rclcpp.pending_operations) > 0
       \/ rclcpp.executor_active /\ env.spins < MaxSpin
    /\ LET r == RCLCPP_outputFnc(rclcpp)
           spin == rclcpp.initialized /\ Len(rclcpp.pending_operations) = 0
       IN  IF r.crash
           THEN /\ crashed' = TRUE
                /\ UNCHANGED <<rclcpp, rcl, trace, env>>
           ELSE /\ rclcpp' = RCLCPP_intTransition(r.st)
                /\ rcl' = IF r.to_rcl = NoOp THEN rcl ELSE RCL_ext_cmd(rcl, r.to_rcl)
                /\ trace' = trace \o r.ev
                /\ env' = IF spin THEN [env EXCEPT !.spins = @ + 1] ELSE env
                /\ UNCHANGED crashed
    /\ UNCHANGED <<qos_io, timer_manager, rmw, dds, tracer, now, rcl_last, rmw_last, fired>>

\* the firings counted per timer: a new timer starts at 0, a firing adds 1
FiredAfter(r, tm2, clock) ==
    [h \in DOMAIN tm2 |->
        IF h \notin DOMAIN fired THEN [count |-> 0, created |-> clock]
        ELSE IF r.to_rclcpp.type = "timer_callback" /\ r.to_rclcpp.handle = h
        THEN [fired[h] EXCEPT !.count = @ + 1]
        ELSE fired[h]]

\* one DEVS step of the ICL: outputFnc, intTransition, and the extTransitions
\* of the UCL (rcl_data_in) and of the MW (rcl_pub_in) for what was sent
RclStep ==
    /\ ~crashed
    /\ RCL_timeAdvance_finite(rcl, timer_manager)
    /\ \E ctx \in (IF rcl.context = None THEN ContextHandles ELSE {rcl.context}) :
        LET r == RCL_outputFnc(rcl, timer_manager, now, ctx)
            i == RCL_intTransition(r.st, r.tm, now)
            up == IF r.to_rclcpp = NoData THEN [st |-> rclcpp, ev |-> <<>>]
                  ELSE RCLCPP_handle_rcl_data(rclcpp, r.to_rclcpp)
        IN  IF r.crash
            THEN /\ crashed' = TRUE
                 /\ trace' = trace \o r.ev
                 /\ UNCHANGED <<rcl, timer_manager, rclcpp, rmw, rcl_last, fired>>
            ELSE
            /\ rcl' = i.st
            /\ timer_manager' = i.tm
            /\ rclcpp' = up.st
            /\ rmw' = IF r.to_rmw = NoMsg THEN rmw
                      ELSE RMW_ext_rcl(rmw, [NoOp EXCEPT !.message = r.to_rmw], FALSE)
            /\ trace' = trace \o r.ev \o up.ev
            /\ rcl_last' =
                 [kind |-> IF rcl.phase = "uninitialized" THEN "init"
                           ELSE IF Len(rcl.pending_operations) > 0 THEN "op"
                           ELSE "timer",
                  op |-> IF rcl.phase # "uninitialized"
                            /\ Len(rcl.pending_operations) > 0
                         THEN rcl.pending_operations[1] ELSE NoOp,
                  to_rclcpp |-> r.to_rclcpp, to_rmw |-> r.to_rmw,
                  to_exec |-> r.to_exec, intra |-> r.intra]
            /\ fired' = FiredAfter(r, i.tm, now)
            /\ UNCHANGED crashed
    /\ UNCHANGED <<qos_io, dds, tracer, now, rmw_last, env>>

\* operations written directly on the ICL's from_rclcpp port
RclNodes == {[NoOp EXCEPT !.type = "create_node", !.node_name = n] : n \in {"A"}}

RclCreates ==
    RclNodes
    \cup {[NoOp EXCEPT !.type = ty, !.node_handle = h, !.topic = t,
                       !.callback = (ty = "create_subscription")] :
            ty \in {"create_publisher", "create_subscription"},
            h \in (DOMAIN rcl.nodes) \cup {BogusHandle}, t \in Topics}

RclPublishes(id) ==
    {[NoOp EXCEPT !.type = "publish", !.publisher_handle = h,
                  !.message = Msg(id, NoName, NoQos)] :
        h \in (DOMAIN rcl.publishers) \cup {BogusHandle}}

RclTimersOf(periods) ==
    {[NoOp EXCEPT !.type = "create_timer", !.node_handle = h, !.period = p,
                  !.callback = TRUE] :
        h \in (DOMAIN rcl.nodes) \cup {BogusHandle}, p \in periods}

RclTimers == RclTimersOf(Periods)

RclCreateGuard == {[NoOp EXCEPT !.type = "create_guard_condition", !.callback = TRUE]}

RclGuards ==
    RclCreateGuard
    \cup {[NoOp EXCEPT !.type = "trigger_guard_condition", !.handle = h] :
            h \in (DOMAIN rcl.guard_conditions) \cup {BogusHandle}}

RclSubmit(op) ==
    /\ CanSubmit
    /\ rcl' = RCL_ext_cmd(rcl, op)
    /\ env' = Submitted(op)
    /\ UNCHANGED <<qos_io, rclcpp, timer_manager, rmw, dds, trace, tracer, now, crashed,
                   rcl_last, rmw_last, fired>>

\* a message written on the ICL's from_rmw port
RclInbound ==
    /\ CanSubmit
    /\ \E t \in Topics : rcl' = RCL_ext_rmw(rcl, Msg(env.msgs + 1, t, NoQos))
    /\ env' = [env EXCEPT !.ops = @ + 1, !.msgs = @ + 1]
    /\ UNCHANGED <<qos_io, rclcpp, timer_manager, rmw, dds, trace, tracer, now, crashed,
                   rcl_last, rmw_last, fired>>

\* a lifecycle command written on the ICL's control_in port; rcl_last keeps
\* the command: enable_publishers in op.type, enable_timers in op.topic
RclControl ==
    /\ CanSubmit
    /\ \E target \in NodeNames, enable_pub \in {"none", "false"},
          enable_tim \in {"none", "false"} :
        /\ IF RCL_ext_control_raises(rcl, target)
           THEN crashed' = TRUE /\ UNCHANGED rcl
           ELSE /\ rcl' = RCL_ext_control(rcl, target, enable_pub, enable_tim)
                /\ UNCHANGED crashed
        /\ rcl_last' = [RclLastInit EXCEPT
                          !.kind = "control",
                          !.op = [NoOp EXCEPT !.type = enable_pub,
                                              !.topic = enable_tim,
                                              !.node_name = target]]
    /\ env' = [env EXCEPT !.ops = @ + 1]
    /\ UNCHANGED <<qos_io, rclcpp, timer_manager, rmw, dds, trace, tracer, now,
                   rmw_last, fired>>

\* the wall clock advances (it is read only by the timers)
Tick ==
    /\ ~crashed
    /\ now < MaxTime
    /\ DOMAIN timer_manager # {}
    /\ now' = now + 1
    /\ UNCHANGED <<qos_io, rclcpp, rcl, timer_manager, rmw, dds, trace, tracer, crashed,
                   rcl_last, rmw_last, fired, env>>

\* one DEVS step of the MW: outputFnc, intTransition, and the ICL's
\* extTransition for what was put on rcl_sub_out
RmwStep ==
    /\ ~crashed
    /\ ~rmw.initialized \/ Len(rmw.pending_operations) > 0
    /\ LET r == RMW_outputFnc(rmw, dds)
           out == RMW_output_ports(rmw)
       IN  /\ rmw' = RMW_intTransition(r.st)
           /\ dds' = r.dds
           /\ trace' = trace \o r.ev
           /\ rcl' = IF out.rcl_sub_out = NoData THEN rcl
                     ELSE RCL_ext_rmw(rcl, out.rcl_sub_out.message)
    /\ UNCHANGED <<qos_io, rclcpp, timer_manager, tracer, now, crashed, rcl_last,
                   rmw_last, fired, env>>

\* the dict commands written on the MW's rcl_pub_in port
RmwCreatePublisher ==
    {[NoOp EXCEPT !.type = "create_publisher", !.topic = t, !.node_name = "A"] :
        t \in Topics}

RmwCreateSubscriptionOf(rels) ==
    {[NoOp EXCEPT !.type = "create_subscription", !.topic = t,
                  !.node_name = "B", !.qos = QosOf(rel), !.callback = TRUE] :
        t \in Topics, rel \in rels}

RmwCreateSubscription == RmwCreateSubscriptionOf(Reliabilities)

RmwPublishes(id) ==
    {[NoOp EXCEPT !.type = "publish", !.message = Msg(id, t, QosOf(rel))] :
        t \in Topics, rel \in {"BEST_EFFORT"}}

RmwSubmit(op) ==
    /\ CanSubmit
    /\ rmw' = RMW_ext_rcl(rmw, op, TRUE)
    /\ env' = Submitted(op)
    /\ UNCHANGED <<qos_io, rclcpp, rcl, timer_manager, dds, trace, tracer, now, crashed,
                   rcl_last, rmw_last, fired>>

\* the MW's extTransition for one input on dds_in
RmwReceive(dds_msg) ==
    LET r == RMW_ext_dds(rmw, dds_msg)
    IN  /\ trace' = trace \o r.ev
        /\ rmw_last' = [kind |-> dds_msg.shape, input |-> dds_msg,
                        taken |-> r.taken, rejected |-> r.rejected]

\* the transport delivers the participant's oldest data to the MW
DdsDeliver ==
    /\ ~crashed
    /\ Len(dds.in_flight) > 0
    /\ RmwReceive(Head(dds.in_flight))
    /\ dds' = [dds EXCEPT !.in_flight = Tail(@)]
    /\ UNCHANGED <<qos_io, rclcpp, rcl, timer_manager, rmw, tracer, now, crashed,
                   rcl_last, fired, env>>

\* data of a remote writer arrives on dds_in, in either of the two shapes
DdsInbound ==
    /\ CanSubmit
    /\ \E shape \in {"data", "response"}, t \in Topics, rel \in Reliabilities :
        RmwReceive(DdsData(shape, t, Msg(env.msgs + 1, t, QosOf(rel)), None, 0))
    /\ env' = [env EXCEPT !.ops = @ + 1, !.msgs = @ + 1]
    /\ UNCHANGED <<qos_io, rclcpp, rcl, timer_manager, rmw, dds, tracer, now, crashed,
                   rcl_last, fired>>

\* one call on the enhanced tracer; draws are the values of random.randint
TracerCall(r) ==
    /\ CanSubmit
    /\ tracer' = r.tr
    /\ trace' = trace \o r.ev
    /\ env' = [env EXCEPT !.ops = @ + 1]
    /\ UNCHANGED <<qos_io, rclcpp, rcl, timer_manager, rmw, dds, now, crashed, rcl_last,
                   rmw_last, fired>>

TracerDraws(n) == [1..n -> TracerSteps]

TracerLogSystemInit ==
    \E steps \in TracerDraws(1) : TracerCall(TRACER_log_system_init(tracer, steps))

TracerLogNodeInit ==
    \E node_name \in NodeNames, steps \in TracerDraws(2) :
        TracerCall(TRACER_log_node_initialization(tracer, node_name, steps))

TracerLogPublisherInit ==
    \E node_name \in {"A"}, topic_name \in Topics, steps \in TracerDraws(5) :
        TracerCall(TRACER_log_publisher_initialization(tracer, node_name,
                                                       topic_name, steps))

TracerLogSubscriptionInit ==
    \E node_name \in {"A"}, topic_name \in Topics, steps \in TracerDraws(4) :
        TracerCall(TRACER_log_subscription_initialization(tracer, node_name,
                                                          topic_name, steps))

(***************************************************************************)
(* Spec: the UCL and the ICL composed (the MW receives what the ICL         *)
(* forwards), driven by an application through the UCL.                     *)
(***************************************************************************)
Next ==
    \/ \E op \in AppOps : AppSubmit(op)
    \/ RclcppStep
    \/ RclStep

Spec == Init /\ [][Next]_vars

(***************************************************************************)
(* SpecIcl: the ICL as a component, with operations on from_rclcpp as its   *)
(* inputs.                                                                  *)
(***************************************************************************)
InitIcl == InitWith(MaxIclOps)

NextIcl ==
    \/ \E op \in RclCreates \cup RclPublishes(env.msgs + 1) \cup RclGuards :
            RclSubmit(op)
    \/ RclStep

SpecIcl == InitIcl /\ [][NextIcl]_vars

(***************************************************************************)
(* SpecTimer: the ICL with its timers and the wall clock.                   *)
(***************************************************************************)
InitTimer == InitWith(MaxTimerOps)

NextTimer ==
    \/ \E op \in RclNodes \cup RclTimers : RclSubmit(op)
    \/ RclStep
    \/ Tick

SpecTimer == InitTimer /\ [][NextTimer]_vars

(***************************************************************************)
(* SpecLayers: the ICL and the MW side by side, each creating entities on   *)
(* commands written on its own port.                                        *)
(***************************************************************************)
InitLayers == InitWith(MaxLayerOps)

NextLayers ==
    \/ \E op \in RclCreates \cup RclTimersOf({MinPeriod}) \cup RclCreateGuard :
            RclSubmit(op)
    \/ \E op \in RmwCreatePublisher \cup RmwCreateSubscriptionOf({"RELIABLE"}) :
            RmwSubmit(op)
    \/ RclStep
    \/ RmwStep

SpecLayers == InitLayers /\ [][NextLayers]_vars

(***************************************************************************)
(* SpecTracer: the enhanced tracer, called directly.                        *)
(***************************************************************************)
InitTracer == InitWith(MaxTracerOps)

NextTracer ==
    \/ TracerLogSystemInit
    \/ TracerLogNodeInit
    \/ TracerLogPublisherInit
    \/ TracerLogSubscriptionInit

SpecTracer == InitTracer /\ [][NextTracer]_vars

(***************************************************************************)
(* SpecMw: the MW with the DDS participant, with commands and inbound data  *)
(* as its inputs.                                                           *)
(***************************************************************************)
InitMw == InitWith(MaxMwOps)

NextMw ==
    \/ \E op \in RmwCreatePublisher \cup RmwCreateSubscription
                 \cup RmwPublishes(env.msgs + 1) : RmwSubmit(op)
    \/ RmwStep
    \/ DdsDeliver
    \/ DdsInbound

SpecMw == InitMw /\ [][NextMw]_vars

\* the simulator runs the MW whenever its time advance has run out, and the
\* transport hands over the data it holds
FairMw == SpecMw /\ WF_vars(RmwStep) /\ WF_vars(DdsDeliver)

(***************************************************************************)
(* The MW with subscriptions of differing reliability and durability and  *)
(* data arriving on dds_in in either shape.                               *)
(***************************************************************************)
GateQos ==
    {[reliability |-> "RELIABLE", durability |-> "VOLATILE"],
     [reliability |-> "BEST_EFFORT", durability |-> "TRANSIENT_LOCAL"],
     [reliability |-> "BEST_EFFORT", durability |-> "VOLATILE"]}

RmwCreateSubscriptionWith(qoss) ==
    {[NoOp EXCEPT !.type = "create_subscription", !.topic = t,
                  !.node_name = "B", !.qos = q, !.callback = TRUE] :
        t \in Topics, q \in qoss}

InitGate == InitWith(MaxGateOps)

NextGate ==
    \/ \E op \in RmwCreateSubscriptionWith(GateQos) : RmwSubmit(op)
    \/ RmwStep
    \/ DdsInbound

SpecGate == InitGate /\ [][NextGate]_vars

(***************************************************************************)
(* The MW with several publishers on one topic: each publish command       *)
(* names the MW publisher it comes from.                                   *)
(***************************************************************************)
RmwPublishesFrom(id) ==
    {[NoOp EXCEPT !.type = "publish", !.publisher_handle = h,
                  !.message = Msg(id, t, QosOf("BEST_EFFORT"))] :
        h \in DOMAIN rmw.publishers, t \in Topics}

InitWriter == InitWith(MaxWriterOps)

NextWriter ==
    \/ \E op \in RmwCreatePublisher \cup RmwPublishesFrom(env.msgs + 1) :
          RmwSubmit(op)
    \/ RmwStep

SpecWriter == InitWriter /\ [][NextWriter]_vars

(***************************************************************************)
(* The QoS conversions as a machine: a profile of the inner               *)
(* representation is given, _to_dds_qos is applied to it, and             *)
(* _coerce_to_rmw_qos is applied to the result.                           *)
(***************************************************************************)
Others == <<rclcpp, rcl, timer_manager, rmw, dds, trace, tracer, now, crashed,
            rcl_last, rmw_last, fired, env>>

InitQos ==
    /\ InitSystem(0)
    /\ qos_io \in {[QosIdle EXCEPT !.stage = "inner", !.q = q] :
                       q \in InnerProfiles}

QosToDds ==
    /\ qos_io.stage = "inner"
    /\ qos_io' = [qos_io EXCEPT !.stage = "lower",
                                !.lower = RMW_to_dds_qos(qos_io.q)]
    /\ UNCHANGED Others

QosCoerce ==
    /\ qos_io.stage = "lower"
    /\ qos_io' = [qos_io EXCEPT !.stage = "back",
                     !.back = RMW_coerce_profile_to_rmw_qos(qos_io.lower)]
    /\ UNCHANGED Others

NextQos == QosToDds \/ QosCoerce

SpecQos == InitQos /\ [][NextQos]_vars

(***************************************************************************)
(* The ICL with the MW attached to its rmw_pub_out port: nodes A and B,   *)
(* publishers of A, subscriptions of B and publishes are written on the   *)
(* ICL's from_rclcpp port; the MW sees only what the ICL sends it.        *)
(***************************************************************************)
RclNodesOf(names) ==
    {[NoOp EXCEPT !.type = "create_node", !.node_name = n] : n \in names}

\* the handles of the ICL's nodes called name
RclNodesNamed(name) == {h \in DOMAIN rcl.nodes : rcl.nodes[h].name = name}

RclCreateOn(ty, name) ==
    {[NoOp EXCEPT !.type = ty, !.node_handle = h, !.topic = t,
                  !.callback = (ty = "create_subscription")] :
        h \in RclNodesNamed(name), t \in Topics}

RclPublishesOn(id) ==
    {[NoOp EXCEPT !.type = "publish", !.publisher_handle = h,
                  !.message = Msg(id, NoName, NoQos)] :
        h \in DOMAIN rcl.publishers}

StackOps ==
    RclNodesOf(NodeNames)
    \cup RclCreateOn("create_publisher", "A")
    \cup RclCreateOn("create_subscription", "B")
    \cup RclPublishesOn(env.msgs + 1)

InitStack == InitWith(MaxStackOps)

NextStack ==
    \/ \E op \in StackOps : RclSubmit(op)
    \/ RclStep
    \/ RmwStep

SpecStack == InitStack /\ [][NextStack]_vars

\* the simulator runs every machine whose time advance has run out
FairStack == SpecStack /\ WF_vars(RclStep) /\ WF_vars(RmwStep)

(***************************************************************************)
(* The ICL with lifecycle commands written on its control_in port.        *)
(***************************************************************************)
InitControl == InitWith(MaxControlOps)

NextControl ==
    \/ \E op \in RclNodes \cup RclCreateOn("create_publisher", "A")
                 \cup RclPublishesOn(env.msgs + 1) : RclSubmit(op)
    \/ RclControl
    \/ RclStep

SpecControl == InitControl /\ [][NextControl]_vars

\* the ICL with timers, the wall clock and lifecycle commands
InitTimerControl == InitWith(MaxControlOps)

NextTimerControl ==
    \/ \E op \in RclNodes \cup RclTimersOf({MinPeriod}) : RclSubmit(op)
    \/ RclControl
    \/ RclStep
    \/ Tick

SpecTimerControl == InitTimerControl /\ [][NextTimerControl]_vars

(***************************************************************************)
(* The UCL and the ICL with an application that submits the creations of  *)
(* node A, its publisher and its subscription in any order.               *)
(***************************************************************************)
InitDefer == InitWith(MaxDeferOps)

NextDefer ==
    \/ \E op \in AppCreateNode({"A"}) \cup AppCreatePublisher({"A"})
                 \cup AppCreateSubscription({"A"}) : AppSubmit(op)
    \/ RclcppStep
    \/ RclStep

SpecDefer == InitDefer /\ [][NextDefer]_vars

\* the simulator runs every machine whose time advance has run out
FairDefer == SpecDefer /\ WF_vars(RclcppStep) /\ WF_vars(RclStep)

(***************************************************************************)
(* The ICL with one node that holds publishers and subscriptions on the   *)
(* same topic.                                                            *)
(***************************************************************************)
InitIntra == InitWith(MaxIntraOps)

NextIntra ==
    \/ \E op \in RclNodes \cup RclCreateOn("create_publisher", "A")
                 \cup RclCreateOn("create_subscription", "A")
                 \cup RclPublishesOn(env.msgs + 1) : RclSubmit(op)
    \/ RclStep

SpecIntra == InitIntra /\ [][NextIntra]_vars

(***************************************************************************)
(* The UCL above the ICL with messages arriving on the ICL's from_rmw     *)
(* port: the ICL delivers them upward and the UCL queues them for the     *)
(* application.                                                           *)
(***************************************************************************)
InitDeliver == InitWith(MaxDeliverOps)

NextDeliver ==
    \/ \E op \in RclNodes \cup RclCreateOn("create_subscription", "A") :
          RclSubmit(op)
    \/ RclInbound
    \/ RclStep
    \/ RclcppStep

SpecDeliver == InitDeliver /\ [][NextDeliver]_vars

(***************************************************************************)
(* The UCL with one node and its publisher: publish descriptors arrive     *)
(* with and without a publisher handle.                                    *)
(***************************************************************************)
ResolveOps ==
    AppCreateNode({"A"}) \cup AppCreatePublisher({"A"})
    \cup AppPublish({"A"}, env.msgs + 1)
    \cup AppPublishBy({BogusHandle}, env.msgs + 1)

InitResolve == InitWith(MaxResolveOps)

NextResolve ==
    \/ \E op \in ResolveOps : AppSubmit(op)
    \/ RclcppStep
    \/ RclStep

SpecResolve == InitResolve /\ [][NextResolve]_vars

(***************************************************************************)
(* The three layers with their queues: creations submitted to the UCL,     *)
(* which passes them to the ICL, and dict commands on the MW's port.       *)
(***************************************************************************)
InitFifo == InitWith(MaxFifoOps)

NextFifo ==
    \/ \E op \in AppCreateNode(NodeNames) : AppSubmit(op)
    \/ \E op \in RmwCreatePublisher : RmwSubmit(op)
    \/ RclcppStep
    \/ RclStep
    \/ RmwStep

SpecFifo == InitFifo /\ [][NextFifo]_vars

(***************************************************************************)
(* The three layers with operations that arrive before a layer's init      *)
(* transition: the application and the MW's client submit only while the   *)
(* layer they write to has not been initialised.                           *)
(***************************************************************************)
InitEarly == InitWith(MaxEarlyOps)

NextEarly ==
    \/ /\ ~rclcpp.initialized
       /\ \E op \in AppCreateNode(NodeNames) : AppSubmit(op)
    \/ /\ ~rmw.initialized
       /\ \E op \in RmwCreatePublisher : RmwSubmit(op)
    \/ RclcppStep
    \/ RclStep
    \/ RmwStep

SpecEarly == InitEarly /\ [][NextEarly]_vars

\* the simulator runs every machine whose time advance has run out: 0.01
\* before a layer's init step, 0.0001 while an operation is pending
FairEarly ==
    SpecEarly /\ WF_vars(RclcppStep) /\ WF_vars(RclStep) /\ WF_vars(RmwStep)

(***************************************************************************)
(* The ICL and the MW with subscriptions whose user callbacks may raise,   *)
(* and messages arriving for them.                                         *)
(***************************************************************************)
\* the creations in ops, each with a callback that returns and one that raises
WithCallbacks(ops) ==
    {[op EXCEPT !.callback = TRUE, !.callback_raises = b] :
        op \in ops, b \in BOOLEAN}

InitCallback == InitWith(MaxCallbackOps)

NextCallback ==
    \/ \E op \in RclNodes
                 \cup WithCallbacks(RclCreateOn("create_subscription", "A")) :
          RclSubmit(op)
    \/ \E op \in WithCallbacks(RmwCreateSubscriptionOf({"BEST_EFFORT"})) :
          RmwSubmit(op)
    \/ RclInbound
    \/ DdsInbound
    \/ RclStep
    \/ RmwStep

SpecCallback == InitCallback /\ [][NextCallback]_vars

(***************************************************************************)
(* The UCL above the ICL with two nodes that each create a publisher on    *)
(* the same topic.                                                         *)
(***************************************************************************)
InitPair == InitWith(MaxPairOps)

NextPair ==
    \/ \E op \in AppCreateNode(NodeNames) \cup AppCreatePublisher(NodeNames) :
          AppSubmit(op)
    \/ RclcppStep
    \/ RclStep

SpecPair == InitPair /\ [][NextPair]_vars







(***************************************************************************)
(* Properties.                                                             *)
(***************************************************************************)
\* the handles that are keys of the ICL's tables, and of the MW's
RclKeys ==
    DOMAIN rcl.nodes \cup DOMAIN rcl.publishers \cup DOMAIN rcl.subscriptions
    \cup DOMAIN rcl.timers \cup DOMAIN rcl.guard_conditions

RmwKeys == DOMAIN rmw.publishers \cup DOMAIN rmw.subscriptions

\* no handle is a key of two tables of the ICL; of the MW
RclTablesDisjoint ==
    Cardinality(RclKeys) =
        Cardinality(DOMAIN rcl.nodes) + Cardinality(DOMAIN rcl.publishers)
        + Cardinality(DOMAIN rcl.subscriptions) + Cardinality(DOMAIN rcl.timers)
        + Cardinality(DOMAIN rcl.guard_conditions)

RmwTablesDisjoint ==
    Cardinality(RmwKeys) =
        Cardinality(DOMAIN rmw.publishers) + Cardinality(DOMAIN rmw.subscriptions)

\* C1: within the ICL and within the MW, the handles _next_handle has
\* returned are exactly the layer's table keys, one entity per handle; a
\* handle a step returns is strictly greater than every handle the layer
\* returned before, and no handle ever leaves the tables or is given to a
\* second entity.
C1_HandlesStrictlyIncreasing ==
    /\ [](/\ RclKeys = RclHandleBase..(rcl.handle_counter - 1)
          /\ RmwKeys = RmwHandleBase..(rmw.handle_counter - 1)
          /\ RclTablesDisjoint
          /\ RmwTablesDisjoint)
    /\ [][/\ RclKeys \subseteq RclKeys'
          /\ RmwKeys \subseteq RmwKeys'
          /\ \A h \in RclKeys' \ RclKeys : \A g \in RclKeys : h > g
          /\ \A h \in RmwKeys' \ RmwKeys : \A g \in RmwKeys : h > g]_vars

\* both layers have handed out several handles, to entities of several kinds
C1_Witness ==
    /\ Cardinality(RclKeys) >= 2
    /\ rcl.publishers # EmptyMap
    /\ rmw.publishers # EmptyMap
    /\ rmw.subscriptions # EmptyMap

\* every ICL publisher, subscription and timer references a node of the
\* ICL's nodes table
RclParentsResolve ==
    /\ \A h \in DOMAIN rcl.publishers :
            rcl.publishers[h].node_handle \in DOMAIN rcl.nodes
    /\ \A h \in DOMAIN rcl.subscriptions :
            rcl.subscriptions[h].node_handle \in DOMAIN rcl.nodes
    /\ \A h \in DOMAIN rcl.timers :
            rcl.timers[h].node_handle \in DOMAIN rcl.nodes

\* C2: a handle value is a key of exactly one table: never of two ICL
\* tables, never of an ICL table and an MW table; and every ICL publisher,
\* subscription and timer references a node in the ICL's nodes table.
C2_HandleInOneTable ==
    /\ RclTablesDisjoint
    /\ RclKeys \cap RmwKeys = {}
    /\ RclParentsResolve

\* the values of a handle-keyed table
Values(table) == {table[h] : h \in DOMAIN table}

\* a waitset list holds each value of the table once and nothing else
Lists(list, table) ==
    /\ Range(list) = Values(table)
    /\ Len(list) = Cardinality(DOMAIN table)

\* C7: the ICL's waitset lists exactly the entities of the ICL's tables:
\* its subscriptions, timers and guard conditions are the values of the
\* three tables, each once, none missing and none stale.
C7_WaitsetMatchesTables ==
    /\ Lists(rcl.waitset.subscriptions, rcl.subscriptions)
    /\ Lists(rcl.waitset.timers, rcl.timers)
    /\ Lists(rcl.waitset.guard_conditions, rcl.guard_conditions)

\* the waitset lists a subscription, a timer and a guard condition
C7_Witness ==
    /\ Len(rcl.waitset.subscriptions) > 0
    /\ Len(rcl.waitset.timers) > 0
    /\ Len(rcl.waitset.guard_conditions) > 0

\* whether an event earlier than position i satisfies P
Earlier(i, P(_)) == \E j \in 1..(i - 1) : P(trace[j])

\* the rcl_E_init event that matches an rmw_E_init event: the tracer's
\* names the rmw handle, a layer's names the topic
MatchingInit(r, c) ==
    /\ c.kind = (IF r.kind = "rmw_publisher_init" THEN "rcl_publisher_init"
                 ELSE "rcl_subscription_init")
    /\ IF r.ctx = "default" THEN c.ctx = "default" /\ c.ref = r.handle
       ELSE c.ctx # "default" /\ c.topic = r.topic

\* C3: in the trace every rmw_publisher_init and rmw_subscription_init comes
\* after the matching rcl_publisher_init / rcl_subscription_init and after
\* an rcl_node_init (of the owning node, where the event names it), and
\* every rcl_publisher_init, rcl_subscription_init and rcl_node_init comes
\* after an rcl_init.
C3_InitOrdering ==
    \A i \in 1..Len(trace) :
        LET e == trace[i]
        IN  /\ e.kind \in {"rmw_publisher_init", "rmw_subscription_init"} =>
                /\ Earlier(i, LAMBDA c : MatchingInit(e, c))
                /\ Earlier(i, LAMBDA c : /\ c.kind = "rcl_node_init"
                                         /\ e.node \in {NoName, c.node})
            /\ e.kind \in {"rcl_publisher_init", "rcl_subscription_init",
                           "rcl_node_init"} =>
                Earlier(i, LAMBDA c : c.kind = "rcl_init")

\* the order of the events of one message
ChainKinds ==
    <<"rclcpp_publish", "rcl_publish", "rmw_publish", "rmw_take", "rcl_take",
      "rclcpp_take", "callback_start", "callback_end">>

\* the kinds of the events that reference message id m, in trace order
KindsOf(m) ==
    LET es == SelectSeq(trace, LAMBDA e : e.msg = m)
    IN  [i \in 1..Len(es) |-> es[i].kind]

IsPrefix(s, t) == Len(s) <= Len(t) /\ \A i \in 1..Len(s) : s[i] = t[i]

\* C4: for each message id, the events that reference it are, in order, a
\* prefix of rclcpp_publish, rcl_publish, rmw_publish, rmw_take, rcl_take,
\* rclcpp_take, callback_start, callback_end: each kind at most once, none
\* skipped.
C4_PublishChain == \A m \in 1..env.msgs : IsPrefix(KindsOf(m), ChainKinds)

\* the ICL's latest output function processed a publish operation
PublishProcessed == rcl_last.kind = "op" /\ rcl_last.op.type = "publish"

\* outcome (a): intra-process delivery, nothing forwarded, no rmw_publish
IntraProcessOutcome ==
    /\ rcl_last.to_rclcpp.type = "message_delivery"
    /\ rcl_last.intra > 0
    /\ rcl_last.to_rmw = NoMsg
    /\ \A i \in 1..Len(trace) :
          ~(trace[i].kind = "rmw_publish" /\ trace[i].msg = rcl_last.op.message.id)

\* outcome (b): the message forwarded to the MW, no intra-process delivery
ForwardOutcome ==
    /\ rcl_last.to_rmw # NoMsg
    /\ rcl_last.to_rmw.id = rcl_last.op.message.id
    /\ rcl_last.to_rclcpp = NoData
    /\ rcl_last.intra = 0

ExactlyOneOutcome == IntraProcessOutcome # ForwardOutcome

\* the publish named a publisher of the ICL's table whose node's publishers
\* are enabled
PublishAccepted ==
    /\ rcl_last.op.publisher_handle \in DOMAIN rcl.publishers
    /\ RCL_controls(rcl, rcl.publishers[rcl_last.op.publisher_handle].node_handle)
          .enable_publishers

C6_QosGating ==
    \A i \in 1..Len(rmw_last.taken) :
        ~(/\ rmw_last.input.message.qos.reliability = "BEST_EFFORT"
          /\ rmw.subscriptions[rmw_last.taken[i]].qos.reliability = "RELIABLE")

\* C8: every MW publisher with a dds_writer_guid has a writer of that guid
\* registered on the participant, on the publisher's topic.
C8_PublisherHasWriter ==
    \A h \in DOMAIN rmw.publishers :
        LET pub == rmw.publishers[h]
        IN  pub.dds_writer_guid # None =>
                /\ pub.dds_writer_guid \in DOMAIN dds.writers
                /\ dds.writers[pub.dds_writer_guid].topic = pub.topic

\* two publishers hold writer guids
C8_Witness ==
    Cardinality({h \in DOMAIN rmw.publishers :
                    rmw.publishers[h].dds_writer_guid # None}) >= 2

\* ceil(d / t) for d >= 0, t > 0
CeilDiv(d, t) == (d + t - 1) \div t

\* C9: a timer of period T that has existed for D produced at most
\* ceil(D/T)+1 firings; one ICL transition produces at most one firing per
\* timer however many periods elapsed, and the fired timer's last trigger
\* time becomes the current time.
C9_TimerNonAccumulation ==
    /\ [](\A h \in DOMAIN fired :
            fired[h].count <=
                CeilDiv(now - fired[h].created, timer_manager[h].period) + 1)
    /\ [][\A h \in DOMAIN fired :
            /\ fired'[h].count <= fired[h].count + 1
            /\ fired'[h].count = fired[h].count + 1 =>
                  timer_manager'[h].last_trigger_time = now]_vars

\* a timer fired once after two or more of its periods had elapsed
C9_Witness ==
    \E h \in DOMAIN fired :
        /\ fired[h].count = 1
        /\ timer_manager[h].last_trigger_time = now
        /\ now - fired[h].created >= 2 * timer_manager[h].period

\* an ICL step: its output function and internal transition have run
RclStepTaken ==
    \/ rcl'.phase # rcl.phase
    \/ Len(rcl'.pending_operations) < Len(rcl.pending_operations)
    \/ rcl_last' # rcl_last

\* C10: the events a step logs are decided by the state and the inputs
\* alone: whatever handle the context draws and whatever the wall clock
\* reads, the ICL logs the events it logged.
C10_TraceDetermined ==
    [][RclStepTaken =>
        \A ctx \in ContextHandles, clock \in 0..MaxTime :
            RCL_outputFnc(rcl, timer_manager, clock, ctx).ev
                = RCL_outputFnc(rcl, timer_manager, now, rcl'.context).ev]_vars

\* C11: a profile of the inner representation that was converted with
\* _to_dds_qos and coerced back with _coerce_to_rmw_qos is the profile that
\* was given, an infinite deadline or lifespan having passed through None
C11_QosRoundTrip ==
    qos_io.stage = "back" => qos_io.back = qos_io.q

\* a publish of message id was forwarded by the ICL on rmw_pub_out while a
\* publisher of node A and a subscription of another node are on the topic
CrossNodeForward(id) ==
    /\ rcl_last.kind = "op"
    /\ rcl_last.op.type = "publish"
    /\ rcl_last.to_rmw # NoMsg
    /\ rcl_last.to_rmw.id = id
    /\ rcl_last.op.publisher_handle \in DOMAIN rcl.publishers
    /\ LET pub == rcl.publishers[rcl_last.op.publisher_handle]
       IN  /\ rcl.nodes[pub.node_handle].name = "A"
           /\ \E h \in DOMAIN rcl.subscriptions :
                /\ rcl.subscriptions[h].topic = pub.topic
                /\ rcl.subscriptions[h].node_handle # pub.node_handle

\* rmw_publish was logged for message id and an rmw_take for it follows
RmwPublishThenTake(id) ==
    \E i \in 1..Len(trace) :
        /\ trace[i].kind = "rmw_publish" /\ trace[i].msg = id
        /\ \E j \in (i+1)..Len(trace) :
              trace[j].kind = "rmw_take" /\ trace[j].msg = id

\* C12: a publish from node A with the subscription on another node B is
\* forwarded to the MW and processed there: rmw_publish is eventually logged
\* for the message id, followed by rmw_take for B's subscription
C12_CrossNodePublishProcessed ==
    \A id \in 1..MaxStackOps : CrossNodeForward(id) ~> RmwPublishThenTake(id)

\* the ICL holds a publisher (a subscription) on topic t
RclHasPublisherOn(t) ==
    \E h \in DOMAIN rcl.publishers : rcl.publishers[h].topic = t

RclHasSubscriptionOn(t) ==
    \E h \in DOMAIN rcl.subscriptions : rcl.subscriptions[h].topic = t

\* the MW holds a publisher on topic t whose writer is on the participant
RmwHasPublisherOn(t) ==
    \E h \in DOMAIN rmw.publishers :
        /\ rmw.publishers[h].topic = t
        /\ rmw.publishers[h].dds_writer_guid \in DOMAIN dds.writers

\* the MW holds a subscription on topic t whose reader is on the participant
RmwHasSubscriptionOn(t) ==
    \E h \in DOMAIN rmw.subscriptions :
        /\ rmw.subscriptions[h].topic = t
        /\ rmw.subscriptions[h].dds_reader_guid \in DOMAIN dds.readers

\* C13: every create_publisher and create_subscription the ICL accepts is
\* forwarded to the MW, so that the MW tables eventually hold a publisher
\* (subscription) on the same topic paired with a DDS writer (reader)
C13_CreatesReachMw ==
    \A t \in Topics :
        /\ RclHasPublisherOn(t) ~> RmwHasPublisherOn(t)
        /\ RclHasSubscriptionOn(t) ~> RmwHasSubscriptionOn(t)

\* the latest input was a lifecycle command {target_node = n,
\* enable_publishers = false} and a node called n exists
DisableReceived(n) ==
    /\ rcl_last.kind = "control"
    /\ rcl_last.op.type = "false"
    /\ rcl_last.op.node_name = n
    /\ RclNodesNamed(n) # {}

\* the publishers of the first node called n are disabled
PublishersDisabled(n) ==
    /\ ~crashed
    /\ RclNodesNamed(n) # {}
    /\ ~RCL_controls(rcl, MinOf(RclNodesNamed(n))).enable_publishers

\* the ICL's step processes a publish from a publisher of a disabled node
DisabledPublishStep ==
    /\ RclStepTaken
    /\ rcl_last'.kind = "op"
    /\ rcl.phase # "uninitialized"
    /\ Len(rcl.pending_operations) > 0
    /\ rcl.pending_operations[1].type = "publish"
    /\ rcl.pending_operations[1].publisher_handle \in DOMAIN rcl.publishers
    /\ ~RCL_controls(rcl, rcl.publishers[
            rcl.pending_operations[1].publisher_handle].node_handle
          ).enable_publishers

\* the events the step appended to the trace
NewEvents == SubSeq(trace', Len(trace) + 1, Len(trace'))

\* C14: a lifecycle command {target_node = N, enable_publishers = false} for
\* an existing node N disables N's publishers, and every later publish from
\* a publisher of N is dropped: publisher_disabled is logged, no rcl_publish
\* or later chain event is logged, nothing goes to the MW or intra-process
C14_DisabledPublishDropped ==
    /\ [](\A n \in NodeNames : DisableReceived(n) => PublishersDisabled(n))
    /\ [][DisabledPublishStep =>
            /\ \E i \in 1..Len(NewEvents) : NewEvents[i].kind = "publisher_disabled"
            /\ \A i \in 1..Len(NewEvents) : NewEvents[i].kind \notin Range(ChainKinds)
            /\ rcl_last'.to_rmw = NoMsg
            /\ rcl_last'.to_rclcpp = NoData]_vars

\* an operation of type ty for node n on topic t waits in the UCL's queue
\* ahead of the create_node of n, and the UCL has no record of n yet
SubmittedBeforeNode(ty, n, t) ==
    /\ n \notin DOMAIN rclcpp.nodes
    /\ \E i, j \in 1..Len(rclcpp.pending_operations) :
        /\ i < j
        /\ rclcpp.pending_operations[i].type = ty
        /\ rclcpp.pending_operations[i].node_name = n
        /\ rclcpp.pending_operations[i].topic = t
        /\ rclcpp.pending_operations[j].type = "create_node"
        /\ rclcpp.pending_operations[j].node_name = n
        /\ \A k \in 1..(i-1) :
              ~(/\ rclcpp.pending_operations[k].type = "create_node"
                /\ rclcpp.pending_operations[k].node_name = n)

\* the publisher of n on t is in the UCL's record and in the ICL's table
PublisherRegistered(n, t) ==
    /\ n \in DOMAIN rclcpp.nodes
    /\ t \in DOMAIN rclcpp.nodes[n].publishers
    /\ \E h \in DOMAIN rcl.publishers :
        /\ rcl.publishers[h].topic = t
        /\ rcl.nodes[rcl.publishers[h].node_handle].name = n

SubscriptionRegistered(n, t) ==
    /\ n \in DOMAIN rclcpp.nodes
    /\ t \in DOMAIN rclcpp.nodes[n].subscriptions
    /\ \E h \in DOMAIN rcl.subscriptions :
        /\ rcl.subscriptions[h].topic = t
        /\ rcl.nodes[rcl.subscriptions[h].node_handle].name = n

\* every ICL creation event of a node's entity follows the node's own
EntityInitAfterNodeInit ==
    \A i \in 1..Len(trace) :
        (trace[i].kind \in {"rcl_publisher_init", "rcl_subscription_init"}
            /\ trace[i].node # NoName)
        => \E j \in 1..(i-1) : /\ trace[j].kind = "rcl_node_init"
                               /\ trace[j].node = trace[i].node

\* C15: a create_publisher (create_subscription) for node X submitted to the
\* UCL before the create_node of X is deferred, not lost: after node_created
\* it is replayed, the entity ends up in the UCL's record and in the ICL's
\* table, and its rcl_*_init event follows the rcl_node_init of X
C15_DeferredCreateReplayed ==
    /\ []EntityInitAfterNodeInit
    /\ \A n \in {"A"}, t \in Topics :
        /\ SubmittedBeforeNode("create_publisher", n, t)
              ~> PublisherRegistered(n, t)
        /\ SubmittedBeforeNode("create_subscription", n, t)
              ~> SubscriptionRegistered(n, t)

\* the ICL has nothing left to do at the current time: it is initialised,
\* its queue is empty and no timer is expired
RclCaughtUp ==
    /\ ~crashed
    /\ rcl.phase # "uninitialized"
    /\ rcl.pending_operations = <<>>
    /\ \A h \in DOMAIN timer_manager : ~Timer_is_ready(timer_manager[h], now)

\* C16: a timer of period T created at time 0 has produced, once the ICL has
\* caught up with the clock, one callback at each of the times 0, T, 2T, ...
\* up to now (for T = 1 s and a run of 3.5 s: exactly 4, at t = 0, 1, 2, 3,
\* the first at creation time) and none in between
C16_TimerFiresFromCreation ==
    \A h \in DOMAIN fired :
        (fired[h].created = 0 /\ RclCaughtUp)
            => fired[h].count = (now \div timer_manager[h].period) + 1

\* the operation references a handle that is not in the ICL's table
UnknownHandle(op) ==
    \/ op.type = "publish" /\ op.publisher_handle \notin DOMAIN rcl.publishers
    \/ /\ op.type \in {"create_publisher", "create_subscription", "create_timer"}
       /\ op.node_handle \notin DOMAIN rcl.nodes
    \/ /\ op.type = "trigger_guard_condition"
       /\ op.handle \notin DOMAIN rcl.guard_conditions

\* the ICL's step processes an operation that references an unknown handle
UnknownHandleStep ==
    /\ RclStepTaken
    /\ rcl_last'.kind = "op"
    /\ rcl.phase # "uninitialized"
    /\ Len(rcl.pending_operations) > 0
    /\ UnknownHandle(rcl.pending_operations[1])

\* C17: an operation that references a handle not in the table is recovered
\* locally: it is dropped (no table changes, nothing is output), a trace
\* event reporting the error is emitted, no exception ends the simulation,
\* and the operations queued behind it stay queued for the next steps
C17_UnknownHandleRecovered ==
    [][UnknownHandleStep =>
        /\ ~crashed'
        /\ RclKeys' = RclKeys
        /\ rcl_last'.to_rclcpp = NoData /\ rcl_last'.to_rmw = NoMsg
        /\ rcl'.pending_operations = Tail(rcl.pending_operations)
        /\ NewEvents # <<>>]_vars

\* the canonical delivery chain
DeliveryKinds ==
    <<"rmw_take", "rcl_take", "rclcpp_take", "callback_start", "callback_end">>

\* the kinds of the delivery events of message m to subscription h, in
\* trace order
DeliveryKindsOf(m, h) ==
    LET es == SelectSeq(trace, LAMBDA e : /\ e.msg = m
                                          /\ e.handle = h
                                          /\ e.kind \in Range(DeliveryKinds))
    IN  [i \in 1..Len(es) |-> es[i].kind]

\* C18: for every message delivered to a subscription the events are, in
\* order, rmw_take, rcl_take, rclcpp_take, callback_start, callback_end: no
\* layer's event is skipped or repeated
C18_DeliveryChain ==
    \A m \in 1..env.msgs, h \in DOMAIN rmw.subscriptions :
        IsPrefix(DeliveryKindsOf(m, h), DeliveryKinds)

\* the number of message_delivery envelopes the ICL's latest step put on
\* its to_rclcpp port
DeliveryOutputs ==
    IF rcl_last.to_rclcpp.type = "message_delivery" THEN 1 ELSE 0

\* C19: a publish from an enabled publisher with k >= 1 subscriptions of the
\* same node on the topic makes the ICL emit k intra-process envelopes, as
\* many as the rclcpp_take events it logs, and send nothing to the MW
C19_IntraFanOut ==
    (PublishProcessed /\ rcl_last.intra >= 1)
        => /\ DeliveryOutputs = rcl_last.intra
           /\ rcl_last.to_rmw = NoMsg

\* a step of the UCL removes a deliver_to_app item from the head of its queue
DeliverToAppRemoved ==
    /\ Len(rclcpp.pending_operations) > 0
    /\ rclcpp.pending_operations[1].type = "deliver_to_app"
    /\ rclcpp'.pending_operations = Tail(rclcpp.pending_operations)

\* C20: every message_delivery the UCL receives is queued as deliver_to_app
\* and output on app_sub_out by a spin step, one per spin, in FIFO order: no
\* deliver_to_app item leaves the queue without its message having been
\* output by the step that removes it
C20_DeliverToAppOutput ==
    [][DeliverToAppRemoved =>
        RCLCPP_outputFnc(rclcpp).to_app = rclcpp.pending_operations[1].message]_vars

\* the MW's latest input was message m and subscription h, whose QoS is
\* compatible with the message's, took it
AcceptedFor(m, h) ==
    /\ rmw_last.kind # "none"
    /\ rmw_last.input.message.id = m
    /\ h \in Range(rmw_last.taken)
    /\ h \in DOMAIN rmw.subscriptions
    /\ RMW_check_qos_delivery(rmw_last.input.message, rmw.subscriptions[h])

\* the ICL has received message m on its from_rmw port
RclReceived(m) ==
    \/ \E i \in 1..Len(rcl.pending_operations) :
          /\ rcl.pending_operations[i].type = "deliver_message"
          /\ rcl.pending_operations[i].message.id = m
    \/ \E i \in 1..Len(trace) :
          trace[i].kind = "rcl_take" /\ trace[i].ctx = "rcl" /\ trace[i].msg = m

\* C21: every inbound message the MW accepts for a subscription results in
\* a message_delivery on rcl_sub_out, so the ICL eventually receives it
C21_AcceptedMessageDelivered ==
    \A m \in 1..MaxMwOps, h \in RmwHandleBase..(RmwHandleBase + MaxMwOps) :
        AcceptedFor(m, h) ~> RclReceived(m)

\* the reasons for which subscription sub must not get message msg:
\* subscriber RELIABLE with publisher BEST_EFFORT, subscriber
\* TRANSIENT_LOCAL with publisher VOLATILE
MismatchReasons(msg, sub) ==
    (IF sub.qos.reliability = "RELIABLE" /\ msg.qos.reliability = "BEST_EFFORT"
     THEN {"reliability mismatch"} ELSE {})
    \cup
    (IF sub.qos.durability = "TRANSIENT_LOCAL" /\ msg.qos.durability = "VOLATILE"
     THEN {"durability mismatch"} ELSE {})

\* the MW's external transition handled an input on dds_in
DdsInputHandled == rmw_last' # rmw_last

RmwCreateStep ==
    /\ rmw.initialized
    /\ Len(rmw.pending_operations) > 0
    /\ rmw.pending_operations[1].type
          \in {"create_publisher", "create_subscription"}
    /\ rmw'.pending_operations = Tail(rmw.pending_operations)

\* the graph event of a creation: its kind, the topic and the node name
GraphEventOf(op) ==
    [NoData EXCEPT !.type = IF op.type = "create_publisher"
                            THEN "publisher_created"
                            ELSE "subscription_created",
                   !.topic = op.topic, !.node_name = op.node_name]

\* C23: each create_publisher and create_subscription the MW processes puts
\* one graph event on graph_event_out with the event kind, the topic and
\* the node name
C23_GraphEventEmitted ==
    [][RmwCreateStep =>
        RMW_output_ports(rmw).graph_event_out
            = GraphEventOf(rmw.pending_operations[1])]_vars

\* the latest input was a lifecycle command {target_node = n,
\* enable_timers = false} and a node called n exists
TimersDisableReceived(n) ==
    /\ rcl_last.kind = "control"
    /\ rcl_last.op.topic = "false"
    /\ rcl_last.op.node_name = n
    /\ RclNodesNamed(n) # {}

\* the timers of the first node called n are disabled
TimersDisabled(n) ==
    /\ ~crashed
    /\ RclNodesNamed(n) # {}
    /\ ~RCL_controls(rcl, MinOf(RclNodesNamed(n))).enable_timers

\* the timers the ICL holds whose owning node has its timers disabled
DisabledTimers ==
    {h \in DOMAIN rcl.timers :
        ~RCL_controls(rcl, rcl.timers[h].node_handle).enable_timers}

\* C24: a lifecycle command {target_node = N, enable_timers = false} for an
\* existing node N disables N's timers, and while they are disabled no step of
\* the ICL fires a timer of N: no timer_callback, no timer work item and no
\* rcl_timer_call event for it
C24_DisabledTimerSilent ==
    /\ [](\A n \in NodeNames : TimersDisableReceived(n) => TimersDisabled(n))
    /\ [][RclStepTaken =>
            /\ rcl_last'.to_rclcpp.handle \notin DisabledTimers
            /\ rcl_last'.to_exec.handle \notin DisabledTimers
            /\ \A i \in 1..Len(NewEvents) :
                  NewEvents[i].kind = "rcl_timer_call"
                      => NewEvents[i].handle \notin DisabledTimers]_vars

\* a step of the MW processes a publish command that names one of the MW's
\* publishers, on that publisher's topic
RmwPublishStep ==
    /\ rmw.initialized
    /\ Len(rmw.pending_operations) > 0
    /\ rmw.pending_operations[1].type = "publish"
    /\ rmw.pending_operations[1].publisher_handle \in DOMAIN rmw.publishers
    /\ rmw.publishers[rmw.pending_operations[1].publisher_handle].topic
          = rmw.pending_operations[1].message.topic
    /\ rmw'.pending_operations = Tail(rmw.pending_operations)

\* C25: a publish processed by the MW is written through the DDS writer paired
\* with the publisher it comes from: the participant gets one more sample, and
\* the sample carries that publisher's writer guid
C25_WrittenByOwnWriter ==
    [][RmwPublishStep =>
        /\ Len(dds'.in_flight) = Len(dds.in_flight) + 1
        /\ dds'.in_flight[Len(dds'.in_flight)].writer_guid
              = rmw.publishers[rmw.pending_operations[1].publisher_handle
                              ].dds_writer_guid]_vars

\* the publish descriptors an application may submit in the current state
PublishDescriptors ==
    AppPublish({"A"}, env.msgs + 1) \cup AppPublishBy({BogusHandle}, env.msgs + 1)

\* the topic a publish descriptor names: its message's, else its own
DescriptorTopic(op) ==
    IF op.message.topic # NoName THEN op.message.topic ELSE op.topic

\* the UCL's record of op's node holds an assigned handle for op's topic
AssignedHandle(op) ==
    /\ op.node_name \in DOMAIN rclcpp.nodes
    /\ DescriptorTopic(op) \in DOMAIN rclcpp.nodes[op.node_name].publishers
    /\ rclcpp.nodes[op.node_name].publishers[DescriptorTopic(op)] # None

\* the descriptor the step put at the tail of the UCL's queue
Queued == rclcpp'.pending_operations[Len(rclcpp'.pending_operations)]

\* the step is the UCL taking descriptor op from app_pub_in: the queue grew
\* by a descriptor that is op in every field but, possibly, the handle
AppSubmitted(op) ==
    /\ env' = Submitted(op)
    /\ Len(rclcpp'.pending_operations) = Len(rclcpp.pending_operations) + 1
    /\ [Queued EXCEPT !.publisher_handle = op.publisher_handle] = op

\* C26: a publish descriptor submitted without publisher_handle, for a node
\* and topic whose publisher record holds an assigned handle, is queued with
\* that handle filled in; a descriptor that carries a publisher_handle is
\* queued unchanged
C26_PublisherHandleResolved ==
    [][\A op \in PublishDescriptors :
        AppSubmitted(op) =>
          /\ (op.publisher_handle \in {Absent, None} /\ AssignedHandle(op))
                => Queued = [op EXCEPT !.publisher_handle =
                                rclcpp.nodes[op.node_name].publishers[
                                    DescriptorTopic(op)]]
          /\ op.publisher_handle \notin {Absent, None} => Queued = op]_vars

\* a publish submitted without a handle waits in the UCL's queue carrying the
\* handle of the publisher record of its node and topic
C26_Witness ==
    \E i \in 1..Len(rclcpp.pending_operations) :
        LET op == rclcpp.pending_operations[i]
        IN  /\ op.type = "publish"
            /\ op.node_name \in DOMAIN rclcpp.nodes
            /\ DescriptorTopic(op) \in DOMAIN rclcpp.nodes[op.node_name].publishers
            /\ op.publisher_handle \notin {Absent, None, BogusHandle}
            /\ op.publisher_handle
                  = rclcpp.nodes[op.node_name].publishers[DescriptorTopic(op)]

\* queue q2 is queue q1 with at most its head removed and with at most one
\* arrival, put behind everything q1 held
FifoStep(q1, q2) ==
    \E k \in {0, 1} :
        /\ k <= Len(q1)
        /\ Len(q2) >= Len(q1) - k
        /\ Len(q2) <= Len(q1) - k + 1
        /\ SubSeq(q2, 1, Len(q1) - k) = SubSeq(q1, k + 1, Len(q1))

RemainingToNearestTimer ==
    1000 * MinOf({IF timer_manager[h].last_trigger_time
                        + timer_manager[h].period > now
                   THEN timer_manager[h].last_trigger_time
                        + timer_manager[h].period - now
                   ELSE 0 : h \in DOMAIN timer_manager})

\* C28: the ICL's time advance is 0 whenever an operation is pending, is the
\* remaining time to the nearest timer expiration, never negative, when no
\* operation is pending and a timer exists, and is INFINITY when the ICL is
\* active with no pending operation and no timer
C28_TimeAdvance ==
    LET ta == RCL_timeAdvance(rcl, timer_manager, now)
    IN  /\ Len(rcl.pending_operations) > 0 => (~ta.inf /\ ta.us = 0)
        /\ (Len(rcl.pending_operations) = 0 /\ DOMAIN timer_manager # {})
              => (~ta.inf /\ ta.us >= 0 /\ ta.us = RemainingToNearestTimer)
        /\ (rcl.phase = "active" /\ Len(rcl.pending_operations) = 0
            /\ DOMAIN timer_manager = {}) => ta.inf

\* the positions of the rcl_init events in a sequence of events
RclInits(events) == {i \in 1..Len(events) : events[i].kind = "rcl_init"}

\* C29: the ICL's phase is always uninitialized or active; it starts
\* uninitialized; its first internal transition logs rcl_init and switches
\* it to active; it never returns to uninitialized; and that rcl_init is the
\* first rcl_init event of the whole trace
C29_PhaseAndFirstInit ==
    /\ rcl.phase = "uninitialized"
    /\ [](rcl.phase \in {"uninitialized", "active"})
    /\ [][rcl.phase = "active" => rcl'.phase = "active"]_vars
    /\ [][(rcl.phase = "uninitialized" /\ RclStepTaken) =>
            /\ rcl'.phase = "active"
            /\ \E i \in RclInits(NewEvents) : NewEvents[i].ctx = "rcl"
            /\ RclInits(trace) = {}]_vars

\* the handles of the timers the step fired: those it logged rcl_timer_call for
FiredTimers ==
    {NewEvents[i].handle : i \in {j \in 1..Len(NewEvents) :
                                     NewEvents[j].kind = "rcl_timer_call"}}

\* C30: each timer firing in the ICL sends, in the same output step, a
\* timer_callback toward the UCL and a work item of type timer toward the
\* executor, both carrying the handle of the timer that fired
C30_TimerFiringTwoOutputs ==
    [][/\ \A h \in FiredTimers :
            /\ rcl_last'.to_rclcpp.type = "timer_callback"
            /\ rcl_last'.to_rclcpp.handle = h
            /\ rcl_last'.to_exec.type = "timer"
            /\ rcl_last'.to_exec.handle = h
       /\ (RclStepTaken /\ rcl_last'.to_rclcpp.type = "timer_callback")
            => /\ rcl_last'.to_exec.type = "timer"
               /\ rcl_last'.to_exec.handle = rcl_last'.to_rclcpp.handle
       /\ (RclStepTaken /\ rcl_last'.to_exec.type = "timer")
            => /\ rcl_last'.to_rclcpp.type = "timer_callback"
               /\ rcl_last'.to_rclcpp.handle = rcl_last'.to_exec.handle]_vars

\* the ICL's latest step fired a timer it holds: both outputs name it, and
\* the trace ends with its rcl_timer_call
C30_Witness ==
    /\ rcl_last.to_rclcpp.type = "timer_callback"
    /\ rcl_last.to_exec.type = "timer"
    /\ rcl_last.to_exec.handle = rcl_last.to_rclcpp.handle
    /\ rcl_last.to_exec.handle \in DOMAIN rcl.timers
    /\ Len(trace) > 0
    /\ trace[Len(trace)].kind = "rcl_timer_call"
    /\ trace[Len(trace)].handle = rcl_last.to_exec.handle

\* the ICL's step processes the operation of type ty at the head of its queue
RclProcesses(ty) ==
    /\ RclStepTaken
    /\ rcl_last'.kind = "op"
    /\ rcl.phase # "uninitialized"
    /\ Len(rcl.pending_operations) > 0
    /\ rcl.pending_operations[1].type = ty

\* C31: create_guard_condition allocates a fresh ICL handle, stores the guard
\* condition under it and appends it to the waitset; trigger_guard_condition
\* for a handle in the table sends one work item of type guard_condition with
\* that handle and its callback to the executor; a trigger for a handle not in
\* the table sends no work item
C31_GuardConditions ==
    [][/\ RclProcesses("create_guard_condition") =>
            LET handle == rcl.handle_counter
                gc == [handle_id |-> handle,
                       callback |-> rcl.pending_operations[1].callback]
            IN  /\ handle \notin RclKeys
                /\ rcl'.guard_conditions = Put(rcl.guard_conditions, handle, gc)
                /\ rcl'.waitset.guard_conditions
                      = Append(rcl.waitset.guard_conditions, gc)
       /\ RclProcesses("trigger_guard_condition") =>
            LET handle == rcl.pending_operations[1].handle
            IN  IF handle \in DOMAIN rcl.guard_conditions
                THEN rcl_last'.to_exec =
                        [NoWork EXCEPT
                            !.type = "guard_condition", !.handle = handle,
                            !.callback = rcl.guard_conditions[handle].callback]
                ELSE rcl_last'.to_exec = NoWork]_vars

\* the ICL's latest step triggered a guard condition of its table, listed on
\* the waitset, and sent the work item with the callback
C31_Witness ==
    /\ rcl_last.kind = "op"
    /\ rcl_last.op.type = "trigger_guard_condition"
    /\ rcl_last.op.handle \in DOMAIN rcl.guard_conditions
    /\ rcl.guard_conditions[rcl_last.op.handle] \in Range(rcl.waitset.guard_conditions)
    /\ rcl_last.to_exec.type = "guard_condition"
    /\ rcl_last.to_exec.handle = rcl_last.op.handle
    /\ rcl_last.to_exec.callback

\* the subscriptions of the MW that take the input of the step and whose
\* callback raises
RmwRaisingTaken ==
    {h \in Range(rmw_last'.taken) :
        h \in DOMAIN rmw.subscriptions
        /\ rmw.subscriptions[h].callback
        /\ rmw.subscriptions[h].callback_raises}

\* the ICL's output function runs for a deliver_message whose subscription
\* has a callback that raises
RclRaisingDelivery ==
    /\ ~crashed
    /\ rcl.phase # "uninitialized"
    /\ Len(rcl.pending_operations) > 0
    /\ rcl.pending_operations[1].type = "deliver_message"
    /\ (crashed' \/ rcl'.pending_operations = Tail(rcl.pending_operations))
    /\ LET found == {h \in DOMAIN rcl.subscriptions :
                        rcl.subscriptions[h].topic
                            = rcl.pending_operations[1].message.topic}
       IN  /\ found # {}
           /\ rcl.subscriptions[MinOf(found)].callback
           /\ rcl.subscriptions[MinOf(found)].callback_raises

\* the step logged an event that reports a callback error
CallbackErrorLogged ==
    \E i \in 1..Len(NewEvents) :
        NewEvents[i].kind \in {"rmw_subscription_callback_error",
                               "rcl_subscription_callback_error"}

\* C32: when a subscription callback raises during a delivery, in the MW or
\* in the ICL, the error is logged as a trace event, the transition completes
\* and the subscription stays in its table
C32_CallbackErrorContained ==
    [][/\ (DdsInputHandled /\ RmwRaisingTaken # {}) =>
            /\ CallbackErrorLogged
            /\ ~crashed'
            /\ rmw'.subscriptions = rmw.subscriptions
       /\ RclRaisingDelivery =>
            /\ CallbackErrorLogged
            /\ ~crashed'
            /\ rcl'.subscriptions = rcl.subscriptions]_vars

\* the timers whose last trigger time the step moved
RearmedTimers ==
    {h \in DOMAIN timer_manager \cap DOMAIN timer_manager' :
        timer_manager'[h].last_trigger_time # timer_manager[h].last_trigger_time}

\* C33: a timer's last trigger time is advanced only by a step whose output
\* carried that timer's firing: a timer that is ready gets its timer_callback
\* before its last trigger time is reset, also when several timers are ready
\* at once or an operation is pending in the ICL's queue
C33_RearmedOnlyWhenFired ==
    [][\A h \in RearmedTimers :
          /\ rcl_last'.to_rclcpp.type = "timer_callback"
          /\ rcl_last'.to_rclcpp.handle = h]_vars

\* the UCL has processed a create_node for node n
NodeCreatedAtUcl(n) ==
    \E i \in 1..Len(trace) :
        trace[i].kind = "rclcpp_node_init" /\ trace[i].node = n

\* the UCL's step processes a create_publisher or create_subscription, for a
\* node whose create_node it processed before, and forwards it to the ICL
UclForwardsCreate ==
    /\ rclcpp.initialized
    /\ Len(rclcpp.pending_operations) > 0
    /\ rclcpp.pending_operations[1].type
          \in {"create_publisher", "create_subscription"}
    /\ NodeCreatedAtUcl(rclcpp.pending_operations[1].node_name)
    /\ Len(rcl'.pending_operations) = Len(rcl.pending_operations) + 1

\* C34: under every interleaving of the UCL's and the ICL's transitions a
\* create_publisher or create_subscription the UCL forwards to the ICL, for a
\* node created before it, carries a node_handle that is a key of the ICL's
\* nodes table
C34_ForwardedCreateHasNode ==
    [][UclForwardsCreate =>
        rcl'.pending_operations[Len(rcl'.pending_operations)].node_handle
            \in DOMAIN rcl.nodes]_vars

\* C35: the UCL's and the ICL's publisher tables agree: whenever the UCL's
\* record for node n and topic t holds a publisher handle h, the ICL's
\* publishers table maps h to a publisher on t owned by the node named n,
\* also when two nodes each create a publisher on the same topic
C35_PublisherTablesAgree ==
    \A n \in DOMAIN rclcpp.nodes :
        \A t \in DOMAIN rclcpp.nodes[n].publishers :
            LET h == rclcpp.nodes[n].publishers[t]
            IN  h # None =>
                  /\ h \in DOMAIN rcl.publishers
                  /\ rcl.publishers[h].topic = t
                  /\ rcl.publishers[h].node_handle \in DOMAIN rcl.nodes
                  /\ rcl.nodes[rcl.publishers[h].node_handle].name = n

\* C36: a rejected ICL operation (a creation with a node_handle not in the
\* nodes table, a publish with an unknown publisher_handle, a trigger with an
\* unknown guard handle) leaves the ICL's tables, the waitset, the timer
\* manager and the handle counter unchanged and sends nothing on any port;
\* only the rejected operation leaves the queue
C36_RejectedOperationFrame ==
    [][UnknownHandleStep =>
        /\ rcl'.nodes = rcl.nodes
        /\ rcl'.publishers = rcl.publishers
        /\ rcl'.subscriptions = rcl.subscriptions
        /\ rcl'.timers = rcl.timers
        /\ rcl'.guard_conditions = rcl.guard_conditions
        /\ rcl'.waitset = rcl.waitset
        /\ timer_manager' = timer_manager
        /\ rcl'.handle_counter = rcl.handle_counter
        /\ rcl_last'.to_rclcpp = NoData
        /\ rcl_last'.to_rmw = NoMsg
        /\ rcl_last'.to_exec = NoWork
        /\ rcl'.pending_operations = Tail(rcl.pending_operations)]_vars

\* the step took the head of queue q1 (q2 is the queue after the step)
HeadRemoved(q1, q2) ==
    /\ Len(q1) > 0
    /\ Len(q2) >= Len(q1) - 1
    /\ SubSeq(q2, 1, Len(q1) - 1) = Tail(q1)
    /\ ~IsPrefix(q1, q2)

\* the nodes the ICL's step created, the publishers the MW's step created
NewRclNodes == DOMAIN rcl'.nodes \ DOMAIN rcl.nodes

NewRmwPublishers == DOMAIN rmw'.publishers \ DOMAIN rmw.publishers

\* the create_node commands the step put into the ICL's queue
ForwardedToRcl ==
    IF Len(rcl'.pending_operations) > Len(rcl.pending_operations)
    THEN {rcl'.pending_operations[Len(rcl'.pending_operations)]}
    ELSE {}

\* every operation submitted so far is waiting in one queue or has been
\* processed once: a create_node yields one ICL node, a create_publisher on
\* the MW's port one MW publisher
OperationsAccounted ==
    Len(rclcpp.pending_operations) + Len(rcl.pending_operations)
        + Cardinality(DOMAIN rcl.nodes)
        + Len(rmw.pending_operations) + Cardinality(DOMAIN rmw.publishers)
    = env.ops

NamesOf(q) == [i \in 1..Len(q) |-> q[i].node_name]

\* the names of the nodes the ICL created, in the order of their handles
CreatedNames ==
    LET created == SortedSeq(DOMAIN rcl.nodes)
    IN  [i \in 1..Len(created) |-> rcl.nodes[created[i]].name]

\* the create_node operations that arrived at the UCL, oldest first: those
\* the ICL has processed, those in the ICL's queue, those in the UCL's queue
Arrivals ==
    CreatedNames \o NamesOf(rcl.pending_operations)
    \o NamesOf(rclcpp.pending_operations)

\* the step is the init transition of the UCL, of the ICL, of the MW
UclInitStep == ~rclcpp.initialized /\ rclcpp'.initialized

RclInitStep == rcl.phase = "uninitialized" /\ rcl'.phase = "active"

RmwInitStep == ~rmw.initialized /\ rmw'.initialized

\* every layer has run its init transition and emptied its queue
Drained ==
    /\ rclcpp.initialized /\ rclcpp.pending_operations = <<>>
    /\ rcl.phase = "active" /\ rcl.pending_operations = <<>>
    /\ rmw.initialized /\ rmw.pending_operations = <<>>

InboundMatches ==
    {h \in DOMAIN rcl.subscriptions :
        rcl.subscriptions[h].topic = rcl.pending_operations[1].message.topic}

\* C39: when the ICL processes an inbound deliver_message for a topic with k
\* subscriptions, each of the k subscriptions receives the message: the step
\* sends a message_delivery toward the UCL and a subscription work item
\* toward the executor for every matching subscription handle
C39_InboundFanOut ==
    [][RclProcesses("deliver_message") =>
        \A h \in InboundMatches :
            /\ rcl_last'.to_rclcpp.type = "message_delivery"
            /\ rcl_last'.to_rclcpp.handle = h
            /\ rcl_last'.to_exec.type = "subscription"
            /\ rcl_last'.to_exec.handle = h]_vars

\* the ICL receives a lifecycle command (kept in rcl_last by the step):
\* an input that, unlike an operation or a message, is not queued
ControlStep ==
    /\ env'.ops = env.ops + 1
    /\ rcl_last'.kind = "control"
    /\ rcl'.pending_operations = rcl.pending_operations

\* the controls the command kept in rcl_last' asks for, given the earlier
\* controls nc: a flag absent from the command keeps its value
CommandedControls(nc) ==
    [enable_publishers |->
        IF rcl_last'.op.type = "none" THEN nc.enable_publishers
        ELSE rcl_last'.op.type = "true",
     enable_timers |->
        IF rcl_last'.op.topic = "none" THEN nc.enable_timers
        ELSE rcl_last'.op.topic = "true"]

\* C40: a lifecycle command changes only the controls of the node whose name
\* is target_node: that node's controls become the commanded ones (a flag
\* absent from the command keeps its value, starting from both enabled),
\* every other node's controls and the rest of the ICL's state are unchanged,
\* and a command naming no existing node changes nothing
C40_ControlFrame ==
    [][ControlStep =>
        /\ ~crashed'
        /\ \A h \in DOMAIN rcl.nodes :
              RCL_controls(rcl', h) =
                 IF rcl.nodes[h].name = rcl_last'.op.node_name
                 THEN CommandedControls(RCL_controls(rcl, h))
                 ELSE RCL_controls(rcl, h)
        /\ [rcl' EXCEPT !.node_controls = rcl.node_controls,
                        !.has_node_controls = rcl.has_node_controls] = rcl]_vars

====
